---- MODULE Spec2Model ----
(***************************************************************************)
(* Model of the coordination core of the Reader Study backend:             *)
(*   - StudyConfigService   (backend/app/services/study_config_service.py) *)
(*   - StudySessionService  (backend/app/services/study_session_service.py)*)
(*   - CaseDiscoveryService (backend/app/services/case_discovery_service.py)*)
(*                                                                         *)
(* The store is one SQLite database.  Every HTTP request runs on its own   *)
(* connection (one AsyncSession per request); a request's handler is a     *)
(* sequence of steps separated by its awaits on the store.  Python None is *)
(* the empty tuple and a present value v is <<v>>, so that optional values  *)
(* of any type can be compared with None.  JSON text is the sequence of    *)
(* its <<key, value>> pairs in textual order (objects) or the sequence of  *)
(* its elements (arrays).                                                  *)
(***************************************************************************)
EXTENDS Integers, Sequences, FiniteSets, TLC

VARIABLES
    config,     \* the study_config table: None, or <<row>> for the row with id 1
    sessions,   \* the study_sessions table: sequence of rows, row i has id i
    progress,   \* the session_progress table: the set of its rows
    dbWriter,   \* the connection holding SQLite's write lock, or "none"
    conn,       \* per connection: the request it is serving and its unit of work
    now,        \* the wall clock read by utc_now()
    reply,      \* the last response sent: [op, status, value], or None
    allocation, \* the last response of GET /case/allocate held by the client, or None
    dataset,    \* the case identifiers found on disk: [positive, negative]
    history     \* observer: per session, the successful advance calls since its first entry

vars == <<config, sessions, progress, dbWriter, conn, now, reply, allocation, dataset, history>>

None == <<>>
Some(v) == <<v>>

(***************************************************************************)
(* Bounds of the model.                                                    *)
(***************************************************************************)
MaxTime == 1        \* the clock runs over 0..MaxTime


(***************************************************************************)
(* JSON text.  json.dumps(data, sort_keys=True) writes an object's keys in *)
(* Python's string order; json.loads reads the pairs back into a dict.     *)
(* depth is the nesting depth of objects (0: a leaf value).                *)
(***************************************************************************)
KeyOrder ==
    <<"S1", "S2", "S3", "block_A", "block_B", "block_C", "group_1", "group_2", "group_3">>

KeyRank(k) == CHOOSE i \in 1..Len(KeyOrder) : KeyOrder[i] = k

RECURSIVE SortedKeys(_)
SortedKeys(S) ==
    IF S = {} THEN <<>>
    ELSE LET m == CHOOSE k \in S : \A j \in S : KeyRank(k) <= KeyRank(j)
         IN  <<m>> \o SortedKeys(S \ {m})

RECURSIVE _canonical_json(_, _)
_canonical_json(data, depth) ==
    IF depth = 0 THEN data
    ELSE LET ks == SortedKeys(DOMAIN data)
         IN  [i \in 1..Len(ks) |-> <<ks[i], _canonical_json(data[ks[i]], depth - 1)>>]

RECURSIVE json_loads(_, _)
json_loads(text, depth) ==
    IF depth = 0 THEN text
    ELSE [k \in {text[i][1] : i \in DOMAIN text} |->
            \* a repeated key keeps its last value
            LET last == CHOOSE i \in DOMAIN text :
                            /\ text[i][1] = k
                            /\ \A j \in DOMAIN text : text[j][1] = k => j <= i
            IN  json_loads(text[last][2], depth - 1)]

(***************************************************************************)
(* models/database.py: defaults of the study_config row.                   *)
(***************************************************************************)
DEFAULT_CROSSOVER_MAPPING ==
    << <<"group_1", << <<"S1", << <<"block_A", "UNAIDED">>, <<"block_B", "AIDED">> >> >>,
                       <<"S2", << <<"block_A", "AIDED">>, <<"block_B", "UNAIDED">> >> >> >> >>,
       <<"group_2", << <<"S1", << <<"block_A", "AIDED">>, <<"block_B", "UNAIDED">> >> >>,
                       <<"S2", << <<"block_A", "UNAIDED">>, <<"block_B", "AIDED">> >> >> >> >> >>

\* A display name is the sequence of its characters.
DEFAULT_GROUP_NAMES ==
    << <<"group_1", <<"G", "1">> >>, <<"group_2", <<"G", "2">> >> >>

\* StudyConfig(id=1, crossover_mapping=...) with the column defaults, written at
\* time t.  ai_threshold is in hundredths (0.30 is 30).
StudyConfig(t) ==
    [ total_sessions         |-> 2,
      total_blocks           |-> 2,
      total_groups           |-> 2,
      crossover_mapping      |-> _canonical_json(json_loads(DEFAULT_CROSSOVER_MAPPING, 3), 3),
      k_max                  |-> 3,
      ai_threshold           |-> 30,
      confidence_mode        |-> "categorical",
      require_lesion_marking |-> TRUE,
      case_order_mode        |-> "random",
      random_seed            |-> None,
      is_locked              |-> FALSE,
      locked_at              |-> None,
      locked_by              |-> None,
      study_name             |-> "Reader Study",
      study_description      |-> None,
      group_names            |-> DEFAULT_GROUP_NAMES,
      updated_at             |-> t ]

\* Columns declared nullable=True keep the optional value; the others its content.
NullableColumns == {"random_seed", "locked_at", "locked_by", "study_description"}

\* LOCKED_FIELDS with a display field listed among the locked ones.
LOCKED_FIELDS_WithStudyName ==
    <<"total_sessions", "total_blocks", "total_groups", "crossover_mapping", "k_max",
      "require_lesion_marking", "study_name">>

LOCKED_FIELDS ==
    <<"total_sessions", "total_blocks", "total_groups", "crossover_mapping", "k_max",
      "require_lesion_marking">>

UNLOCKED_FIELDS ==
    <<"study_name", "study_description", "ai_threshold", "confidence_mode",
      "case_order_mode", "random_seed", "group_names">>

\* readers table: id -> crossover group (None for the administrator).
ReaderGroup == (1 :> Some(1)) @@ (2 :> Some(2)) @@ (3 :> None)
ReaderIds == {r \in DOMAIN ReaderGroup : ReaderGroup[r] # None}
AdminIds == {r \in DOMAIN ReaderGroup : ReaderGroup[r] = None}

Range(seq) == {seq[i] : i \in DOMAIN seq}

(***************************************************************************)
(* Requests.  A request body (model_dump(exclude_unset=True)) is a         *)
(* function from the supplied field names to optional values: an explicit  *)
(* JSON null is None.                                                      *)
(***************************************************************************)
Supplied(data, field) == field \in DOMAIN data /\ data[field] # None

SwappedMapping ==
    [ group_1 |-> [ S1 |-> [block_A |-> "AIDED",   block_B |-> "UNAIDED"],
                    S2 |-> [block_A |-> "UNAIDED", block_B |-> "AIDED"] ],
      group_2 |-> [ S1 |-> [block_A |-> "UNAIDED", block_B |-> "AIDED"],
                    S2 |-> [block_A |-> "AIDED",   block_B |-> "UNAIDED"] ] ]

MissingGroupMapping ==
    [ group_1 |-> [ S1 |-> [block_A |-> "AIDED",   block_B |-> "UNAIDED"],
                    S2 |-> [block_A |-> "UNAIDED", block_B |-> "AIDED"] ] ]

BadModeMapping ==
    [ SwappedMapping EXCEPT !["group_2"]["S2"]["block_B"] = "BOTH" ]

GoodNames    == [group_1 |-> <<"A">>, group_2 |-> <<"B">>]
MissingNames == [group_1 |-> <<"A">>]
BlankNames   == [group_1 |-> <<"A">>, group_2 |-> <<" ">>]
LongNames    == [group_1 |-> <<"A">>, group_2 |-> [i \in 1..51 |-> "x"]]

UpdateRequests ==
    { [study_name |-> Some("X")],
      [k_max |-> Some(5)],
      [total_sessions |-> Some(3), total_blocks |-> Some(3), total_groups |-> Some(3),
       k_max |-> Some(5), require_lesion_marking |-> Some(FALSE)],
      [crossover_mapping |-> Some(SwappedMapping)],
      [crossover_mapping |-> Some(MissingGroupMapping), study_name |-> Some("X")],
      [crossover_mapping |-> Some(BadModeMapping), ai_threshold |-> Some(50)],
      [study_description |-> Some("D"), ai_threshold |-> Some(50),
       confidence_mode |-> Some("continuous"), case_order_mode |-> Some("fixed"),
       random_seed |-> Some(7), group_names |-> Some(GoodNames)],
      [group_names |-> Some(MissingNames), study_name |-> Some("X")],
      [group_names |-> Some(BlankNames), ai_threshold |-> Some(50)],
      [group_names |-> Some(LongNames), ai_threshold |-> Some(50)],
      [k_max |-> None, study_name |-> Some("X")],
      [study_description |-> None, random_seed |-> None, study_name |-> Some("X")] }

(***************************************************************************)
(* StudyConfigService: validation helpers.                                 *)
(***************************************************************************)
\* The message for a locked field names that field.
LockedFieldMessage(field) == <<"locked_field", field>>

_validate_locked_fields(data) ==
    LET offending == SelectSeq(LOCKED_FIELDS, LAMBDA f : Supplied(data, f))
    IN  [i \in 1..Len(offending) |-> LockedFieldMessage(offending[i])]

required_groups   == <<"group_1", "group_2">>
required_sessions == <<"S1", "S2">>
required_blocks   == <<"block_A", "block_B">>
valid_modes       == <<"UNAIDED", "AIDED">>

\* TRUE when the method returns the mapping, FALSE when it raises ValueError.
_validate_crossover_mapping(mapping) ==
    \A g \in Range(required_groups) :
       /\ g \in DOMAIN mapping
       /\ \A s \in Range(required_sessions) :
             /\ s \in DOMAIN mapping[g]
             /\ \A b \in Range(required_blocks) :
                   /\ b \in DOMAIN mapping[g][s]
                   /\ mapping[g][s][b] \in Range(valid_modes)

\* str.strip(): the name without its leading and trailing blanks.
RECURSIVE strip(_)
strip(name) ==
    IF name = <<>> THEN name
    ELSE IF Head(name) = " " THEN strip(Tail(name))
    ELSE IF name[Len(name)] = " " THEN strip(SubSeq(name, 1, Len(name) - 1))
    ELSE name

\* TRUE when the method returns group_names, FALSE when it raises ValueError.
_validate_group_names(group_names, crossover_mapping) ==
    /\ DOMAIN crossover_mapping = DOMAIN group_names
    /\ \A key \in DOMAIN group_names :
          /\ Len(strip(group_names[key])) # 0
          /\ ~(Len(group_names[key]) > 50)

(***************************************************************************)
(* Connections.  A request is served on its own connection.  pc is the     *)
(* handler's position: "idle" (no request), "begun" (BEGIN IMMEDIATE       *)
(* done), "loaded" (rows read into the unit of work, commit pending).      *)
(***************************************************************************)
Conns == {"c1", "c2"}

IdleConn ==
    [pc |-> "idle", op |-> "none", arg |-> None, snap |-> None, fresh |-> FALSE]

Serving(c, op, pc) == conn[c].pc = pc /\ conn[c].op = op

\* The handler returns (status "ok") or raises (the HTTP status of the error).
Respond(c, op, status, value) ==
    /\ conn' = [conn EXCEPT ![c] = IdleConn]
    /\ reply' = Some([op |-> op, status |-> status, value |-> value])

\* A plain (deferred) BEGIN takes no lock.
CanBeginDeferred(c) == TRUE

\* db.execute(text("BEGIN IMMEDIATE")): SQLite grants the write lock to one
\* connection at a time; the others wait for it.
CanBeginImmediate(c) == dbWriter = "none"

BeginImmediate(c, op, arg) ==
    /\ conn[c].pc = "idle"
    /\ CanBeginImmediate(c)
    /\ dbWriter' = c
    /\ conn' = [conn EXCEPT ![c] = [IdleConn EXCEPT !.pc = "begun", !.op = op, !.arg = arg]]
    /\ UNCHANGED <<config, sessions, progress, now, reply, allocation, dataset, history>>

\* Session.commit() on the study_config row of a unit of work that loaded `old`
\* and now holds `new`: an INSERT when the row was added in this transaction,
\* else an UPDATE of the changed columns (updated_at has onupdate=_utc_now).
FlushConfig(current, fresh, old, new, t) ==
    IF fresh THEN Some(new)
    ELSE LET changed == {f \in DOMAIN new : new[f] # old[f]}
         IN  IF changed = {} THEN current
             ELSE Some([f \in DOMAIN new |->
                          IF f \in changed THEN new[f]
                          ELSE IF f = "updated_at" THEN t
                          ELSE current[1][f]])

\* The INSERT of a second row with id 1 fails (primary key).
CanFlushConfig(fresh) == fresh => config = None

(***************************************************************************)
(* StudyConfigService.                                                     *)
(***************************************************************************)
Tick ==
    /\ now < MaxTime
    /\ now' = now + 1
    /\ UNCHANGED <<config, sessions, progress, dbWriter, conn, reply, allocation, dataset, history>>

\* get_or_create_config on an empty table (with a row it only reads).
get_or_create_config(c) ==
    /\ conn[c].pc = "idle"
    /\ config = None
    /\ dbWriter = "none"
    /\ config' = Some(StudyConfig(now))
    /\ Respond(c, "get_or_create_config", "ok", None)
    /\ UNCHANGED <<sessions, progress, dbWriter, now, allocation, dataset, history>>

_get_config_locked(c) ==
    /\ conn[c].pc = "begun"
    /\ conn' = [conn EXCEPT ![c].pc = "loaded",
                            ![c].fresh = (config = None),
                            ![c].snap = IF config = None THEN Some(StudyConfig(now))
                                        ELSE config]
    /\ UNCHANGED <<config, sessions, progress, dbWriter, now, reply, allocation, dataset, history>>

\* The value update_config stores for a supplied field.
StoredValue(data, field) ==
    IF field = "crossover_mapping" THEN _canonical_json(data[field][1], 3)
    ELSE IF field = "group_names" THEN _canonical_json(data[field][1], 1)
    ELSE IF field \in NullableColumns THEN data[field]
    ELSE data[field][1]

\* The setattr loop and the updated_at assignment.
ApplyFields(cfg, data, t) ==
    [f \in DOMAIN cfg |->
       IF f = "updated_at" THEN t
       ELSE IF Supplied(data, f) THEN StoredValue(data, f)
       ELSE cfg[f]]

\* update_config from the lock check to the last setattr, on the loaded row cfg
\* at time t: the HTTP status, the error detail and the row to commit.
update_config_body(cfg, data, t) ==
    LET errors == IF cfg.is_locked THEN _validate_locked_fields(data) ELSE <<>>
    IN  IF errors # <<>>
          THEN [status |-> "400", detail |-> errors[1], row |-> cfg]
        ELSE IF /\ Supplied(data, "crossover_mapping")
                /\ ~_validate_crossover_mapping(data["crossover_mapping"][1])
          THEN [status |-> "400", detail |-> <<"crossover_mapping">>, row |-> cfg]
        ELSE IF /\ Supplied(data, "group_names")
                /\ ~_validate_group_names(data["group_names"][1],
                                          json_loads(cfg.crossover_mapping, 3))
          THEN [status |-> "400", detail |-> <<"group_names">>, row |-> cfg]
        ELSE [status |-> "ok", detail |-> None, row |-> ApplyFields(cfg, data, t)]

update_config_begin(c, data) == BeginImmediate(c, "update_config", data)

\* update_config with the fields set before validation and no rollback.
update_config_NoRollback(c) ==
    /\ Serving(c, "update_config", "loaded")
    /\ LET out == update_config_body(conn[c].snap[1], conn[c].arg, now)
           row == ApplyFields(conn[c].snap[1], conn[c].arg, now)
       IN  /\ config' = IF CanFlushConfig(conn[c].fresh)
                          THEN FlushConfig(config, conn[c].fresh, conn[c].snap[1], row, now)
                          ELSE config
           /\ Respond(c, "update_config", out.status, out.detail)
    /\ dbWriter' = "none"
    /\ UNCHANGED <<sessions, progress, now, allocation, dataset, history>>

update_config(c) ==
    /\ Serving(c, "update_config", "loaded")
    /\ LET out == update_config_body(conn[c].snap[1], conn[c].arg, now)
           committed == out.status = "ok" /\ CanFlushConfig(conn[c].fresh)
       IN  /\ config' = IF committed
                          THEN FlushConfig(config, conn[c].fresh, conn[c].snap[1], out.row, now)
                          ELSE config
           /\ IF out.status = "ok" /\ ~committed
                 THEN Respond(c, "update_config", "500", None)
                 ELSE Respond(c, "update_config", out.status, out.detail)
    /\ dbWriter' = "none"
    /\ UNCHANGED <<sessions, progress, now, allocation, dataset, history>>

\* The three assignments of the lock transition.
LockRow(cfg, actor, t) ==
    [cfg EXCEPT !.is_locked = TRUE, !.locked_at = Some(t), !.locked_by = Some(actor)]

\* LockTransition without the already-locked early return.
LockTransition_Relock(c, op) ==
    /\ Serving(c, op, "loaded")
    /\ LET cfg == conn[c].snap[1]
       IN  IF CanFlushConfig(conn[c].fresh)
             THEN /\ config' = FlushConfig(config, conn[c].fresh, cfg,
                                           LockRow(cfg, conn[c].arg, now), now)
                  /\ Respond(c, op, "ok", TRUE)
           ELSE /\ config' = config
                /\ Respond(c, op, "500", None)
    /\ dbWriter' = "none"
    /\ UNCHANGED <<sessions, progress, now, allocation, dataset, history>>

\* The part trigger_lock_if_needed and manual_lock share after _get_config_locked.
LockTransition(c, op) ==
    /\ Serving(c, op, "loaded")
    /\ LET cfg == conn[c].snap[1]
       IN  IF cfg.is_locked
             THEN /\ config' = config
                  /\ Respond(c, op, "ok", FALSE)
           ELSE IF CanFlushConfig(conn[c].fresh)
             THEN /\ config' = FlushConfig(config, conn[c].fresh, cfg,
                                           LockRow(cfg, conn[c].arg, now), now)
                  /\ Respond(c, op, "ok", TRUE)
           ELSE /\ config' = config
                /\ Respond(c, op, "500", None)
    /\ dbWriter' = "none"
    /\ UNCHANGED <<sessions, progress, now, allocation, dataset, history>>

trigger_lock_if_needed_begin(c, reader_id) ==
    BeginImmediate(c, "trigger_lock_if_needed", reader_id)

trigger_lock_if_needed(c) == LockTransition(c, "trigger_lock_if_needed")

manual_lock_begin(c, admin_id) == BeginImmediate(c, "manual_lock", admin_id)

manual_lock(c) == LockTransition(c, "manual_lock")

(***************************************************************************)
(* Specifications.                                                         *)
(***************************************************************************)
Init ==
    /\ config = None
    /\ sessions = <<>>
    /\ progress = {}
    /\ dbWriter = "none"
    /\ conn = [c \in Conns |-> IdleConn]
    /\ now = 0
    /\ reply = None
    /\ allocation = None
    /\ dataset = [positive |-> <<"p1", "p2">>, negative |-> <<"n1">>]
    /\ history = <<>>

\* The configuration service alone, on two connections.
NextConfig ==
    \/ Tick
    \/ \E c \in Conns :
          \/ get_or_create_config(c)
          \/ \E data \in UpdateRequests : update_config_begin(c, data)
          \/ \E r \in ReaderIds : trigger_lock_if_needed_begin(c, r)
          \/ \E a \in AdminIds : manual_lock_begin(c, a)
          \/ _get_config_locked(c)
          \/ update_config(c)
          \/ trigger_lock_if_needed(c)
          \/ manual_lock(c)

SpecConfig == Init /\ [][NextConfig]_vars

(***************************************************************************)
(* Properties of the configuration service (checked under SpecConfig).     *)
(***************************************************************************)
Locked == config # None /\ config[1].is_locked

LastReply(op, status) ==
    reply # None /\ reply[1].op = op /\ reply[1].status = status

\* C2: once is_locked is true, total_sessions, total_blocks, total_groups,
\* crossover_mapping, k_max and require_lesion_marking keep their values in every
\* later step, whatever update_config, trigger_lock_if_needed and manual_lock
\* calls interleave (and the row stays locked).
C2_LockedFieldsWriteOnce ==
    [][Locked =>
         /\ config' # None
         /\ config'[1].is_locked
         /\ \A f \in Range(LOCKED_FIELDS) : config'[1][f] = config[1][f]]_vars

\* An update of locked fields has been rejected on a locked configuration whose
\* locked fields were changed before the lock.
C2_Witness ==
    /\ Locked
    /\ config[1].k_max = 5
    /\ LastReply("update_config", "400")
    /\ reply[1].value[1] = "locked_field"

\* C8: a rejected update_config call (lock violation, malformed crossover
\* mapping, invalid group names) leaves the study_config row as it was, the
\* non-locked fields of the same request and updated_at included.
C8_RejectedUpdateChangesNothing ==
    [][\A c \in Conns :
         (update_config(c) /\ reply'[1].status # "ok") => config' = config]_vars

\* A request carrying ai_threshold = 0.50 and a bad group-name map has been
\* rejected, and the stored ai_threshold is still the default.
C8_Witness ==
    /\ config # None
    /\ LastReply("update_config", "400")
    /\ reply[1].value = <<"group_names">>
    /\ config[1].ai_threshold = 30

OnlyUnlockedFields(data) == DOMAIN data \subseteq Range(UNLOCKED_FIELDS)

\* Column f of cfg holds the value the request supplies for it.
ValueApplied(cfg, data, f) ==
    IF f = "group_names" THEN data[f] # None /\ json_loads(cfg[f], 1) = data[f][1]
    ELSE IF f \in NullableColumns THEN cfg[f] = data[f]
    ELSE data[f] # None /\ cfg[f] = data[f][1]

\* C9 as stated: on a locked configuration, an update_config call supplying only
\* non-locked fields is accepted and every supplied value is applied.
C9_UnlockedFieldsAlwaysAccepted ==
    [][\A c \in Conns :
         (/\ update_config(c)
          /\ conn[c].snap[1].is_locked
          /\ OnlyUnlockedFields(conn[c].arg))
         => /\ reply'[1].status = "ok"
            /\ \A f \in DOMAIN conn[c].arg : ValueApplied(config'[1], conn[c].arg, f)]_vars

\* The group-name map names exactly the groups of the stored crossover mapping,
\* and each name has a non-blank character and at most 50 characters.
NamesFitStoredMapping(names, cfg) ==
    /\ DOMAIN names = {cfg.crossover_mapping[i][1] : i \in DOMAIN cfg.crossover_mapping}
    /\ \A k \in DOMAIN names :
          /\ \E i \in DOMAIN names[k] : names[k][i] # " "
          /\ Len(names[k]) <= 50

\* C9 amended: on a locked configuration, an update_config call supplying only
\* non-locked fields, whose group_names (if supplied) names exactly the groups of
\* the stored crossover mapping with non-blank names of at most 50 characters, is
\* accepted; every supplied non-null value is applied and a supplied null leaves
\* its field unchanged.
C9_ValidUnlockedFieldsAccepted ==
    [][\A c \in Conns :
         (/\ update_config(c)
          /\ conn[c].snap[1].is_locked
          /\ OnlyUnlockedFields(conn[c].arg)
          /\ Supplied(conn[c].arg, "group_names")
                => NamesFitStoredMapping(conn[c].arg["group_names"][1], conn[c].snap[1]))
         => /\ reply'[1].status = "ok"
            /\ \A f \in DOMAIN conn[c].arg :
                  IF conn[c].arg[f] # None
                    THEN ValueApplied(config'[1], conn[c].arg, f)
                    ELSE config'[1][f] = config[1][f]]_vars

\* After the lock, an update of non-locked fields only has been accepted: the
\* row was last written after the lock and carries the new names and threshold.
C9_Witness ==
    /\ Locked
    /\ LastReply("update_config", "ok")
    /\ config[1].updated_at > config[1].locked_at[1]
    /\ config[1].ai_threshold = 50
    /\ json_loads(config[1].group_names, 1) = GoodNames
    /\ config[1].k_max = 3

\* The error detail names the field.
DetailNames(detail, field) == \E i \in 2..Len(detail) : detail[i] = field

\* C10: when update_config on a locked configuration is given several locked
\* fields, the rejection names every one of them.
C10_EveryRejectedFieldIdentified ==
    [][\A c \in Conns :
         (/\ update_config(c)
          /\ reply'[1].status = "400"
          /\ reply'[1].value[1] = "locked_field")
         => \A f \in Range(LOCKED_FIELDS) :
               Supplied(conn[c].arg, f) => DetailNames(reply'[1].value, f)]_vars

(***************************************************************************)
(* Study sessions (models/database.py, services/study_session_service.py). *)
(* A JSON array column holds the sequence of its elements.                 *)
(***************************************************************************)
\* The crossover table the session service carries: (group, session) to the
\* modes of blocks A and B.
\* A table that gives group 2 in session S2 the same mode in both blocks.
CROSSOVER_MAPPING_SameModes ==
    (<<1, "S1">> :> <<"UNAIDED", "AIDED">>) @@
    (<<1, "S2">> :> <<"AIDED", "UNAIDED">>) @@
    (<<2, "S1">> :> <<"AIDED", "UNAIDED">>) @@
    (<<2, "S2">> :> <<"AIDED", "AIDED">>)

CROSSOVER_MAPPING ==
    (<<1, "S1">> :> <<"UNAIDED", "AIDED">>) @@
    (<<1, "S2">> :> <<"AIDED", "UNAIDED">>) @@
    (<<2, "S1">> :> <<"AIDED", "UNAIDED">>) @@
    (<<2, "S2">> :> <<"UNAIDED", "AIDED">>)

\* A study_sessions row; its id is its position in sessions.
StudySession(reader_id, session_code, modes, k_max, ai_threshold) ==
    [session_code       |-> session_code,
     reader_id          |-> reader_id,
     block_a_mode       |-> modes[1],
     block_b_mode       |-> modes[2],
     case_order_block_a |-> None,
     case_order_block_b |-> None,
     k_max              |-> k_max,
     ai_threshold       |-> ai_threshold,
     status             |-> "pending"]

\* A session_progress row as enter_session creates it.
SessionProgress(id, session_id, t) ==
    [id                 |-> id,
     session_id         |-> session_id,
     current_block      |-> "A",
     current_case_index |-> 0,
     completed_cases    |-> <<>>,
     started_at         |-> Some(t),
     last_accessed_at   |-> Some(t),
     completed_at       |-> None]

\* The rows of session_progress that belong to a session.
ProgressOf(session_id) == {p \in progress : p.session_id = session_id}

\* INTEGER PRIMARY KEY of SQLite: one more than the largest id in the table.
NextProgressId ==
    IF progress = {} THEN 1
    ELSE 1 + CHOOSE m \in {p.id : p \in progress} : \A p \in progress : p.id <= m

\* get_session_by_id: the row and, eagerly loaded, its progress row.
get_session_by_id(session_id) ==
    IF session_id \in DOMAIN sessions
    THEN Some([session  |-> sessions[session_id],
               progress |-> IF ProgressOf(session_id) = {} THEN None
                            ELSE Some(CHOOSE p \in ProgressOf(session_id) : TRUE)])
    ELSE None

\* A shuffle that samples with replacement instead of permuting.
shuffle_Sample(list) ==
    {[i \in DOMAIN list |-> list[p[i]]] : p \in [DOMAIN list -> DOMAIN list]}

\* random.shuffle: any arrangement of the list.
shuffle(list) ==
    {[i \in DOMAIN list |-> list[p[i]]] :
        p \in {q \in [DOMAIN list -> DOMAIN list] :
                 \A i, j \in DOMAIN list : q[i] = q[j] => i = j}}

\* The case order of a block of a session that has been entered.
case_order(session, block) ==
    IF block = "A" THEN session.case_order_block_a[1] ELSE session.case_order_block_b[1]

block_mode(session, block) ==
    IF block = "A" THEN session.block_a_mode ELSE session.block_b_mode

\* The UPDATE a commit issues for a loaded row: the columns the unit of work
\* changed, written over the row as it is stored now.
FlushRow(current, old, new) ==
    [f \in DOMAIN new |-> IF new[f] # old[f] THEN new[f] ELSE current[f]]

\* The stored progress row with the given primary key, as a set.
ProgressById(id) == {p \in progress : p.id = id}

\* The commit of a changed progress row updates the row with its primary key;
\* when that row is gone the UPDATE matches nothing and the commit fails.
CanFlushProgress(old, new) == new = old \/ ProgressById(old.id) # {}

FlushProgress(old, new) ==
    (progress \ ProgressById(old.id)) \cup
    {FlushRow(current, old, new) : current \in ProgressById(old.id)}

FlushSession(session_id, old, new) ==
    [sessions EXCEPT ![session_id] = FlushRow(@, old, new)]

\* A handler that has read its session (and progress) and will commit.
LoadSession(c, op, arg, found) ==
    /\ conn' = [conn EXCEPT ![c] = [pc |-> "loaded", op |-> op, arg |-> arg,
                                    snap |-> found, fresh |-> FALSE]]
    /\ reply' = reply

\* The observer's entry for a session no advance has been served for: the
\* number of successful advance calls and the case id of the latest one.
NoHistory == [advances |-> 0, last |-> None]

(***************************************************************************)
(* StudySessionService.                                                    *)
(***************************************************************************)
\* The dictionary enter_session returns.
enter_session_result(session_id, session, prog, is_new_session) ==
    LET order == case_order(session, prog.current_block)
        current_index == prog.current_case_index
    IN  [session_id           |-> session_id,
         session_code         |-> session.session_code,
         current_block        |-> prog.current_block,
         current_mode         |-> block_mode(session, prog.current_block),
         current_case_id      |-> IF current_index < Len(order)
                                    THEN Some(order[current_index + 1]) ELSE None,
         current_case_index   |-> current_index,
         total_cases_in_block |-> Len(order),
         k_max                |-> session.k_max,
         ai_threshold         |-> session.ai_threshold,
         is_new_session       |-> is_new_session]

\* enter_session up to its commit: the checks on the loaded session.
enter_session_begin(c, session_id, reader_id, block_a_cases, block_b_cases) ==
    /\ conn[c].pc = "idle"
    /\ LET found == get_session_by_id(session_id)
           arg == [session_id |-> session_id, reader_id |-> reader_id,
                   block_a_cases |-> block_a_cases, block_b_cases |-> block_b_cases]
       IN  IF found = None
             THEN Respond(c, "enter_session", "400", <<"not_found">>)
           ELSE IF found[1].session.reader_id # reader_id
             THEN Respond(c, "enter_session", "403", <<"not_owner">>)
           ELSE IF found[1].session.status = "completed"
             THEN Respond(c, "enter_session", "400", <<"completed">>)
           ELSE IF found[1].session.case_order_block_a # None /\ found[1].progress = None
             THEN Respond(c, "enter_session", "400", <<"no_progress">>)
           ELSE LoadSession(c, "enter_session", arg, found)
    /\ UNCHANGED <<config, sessions, progress, dbWriter, now, allocation, dataset, history>>

\* enter_session whose re-entry branch rewinds the cursor to block A, index 0.
enter_session_Rewind(c) ==
    /\ Serving(c, "enter_session", "loaded")
    /\ dbWriter = "none"
    /\ LET session_id == conn[c].arg.session_id
           session == conn[c].snap[1].session
       IN  IF session.case_order_block_a = None
             THEN \E shuffled_a \in shuffle(conn[c].arg.block_a_cases),
                     shuffled_b \in shuffle(conn[c].arg.block_b_cases) :
                    LET entered == [session EXCEPT
                                      !.case_order_block_a = Some(shuffled_a),
                                      !.case_order_block_b = Some(shuffled_b),
                                      !.status = "in_progress"]
                        new_progress == SessionProgress(NextProgressId, session_id, now)
                    IN  IF ProgressOf(session_id) # {}
                          THEN /\ UNCHANGED <<sessions, progress>>
                               /\ Respond(c, "enter_session", "500", None)
                          ELSE /\ sessions' = FlushSession(session_id, session, entered)
                               /\ progress' = progress \cup {new_progress}
                               /\ Respond(c, "enter_session", "ok",
                                     enter_session_result(session_id, entered,
                                                          new_progress, TRUE))
             ELSE LET prog == conn[c].snap[1].progress[1]
                      touched == [prog EXCEPT !.last_accessed_at = Some(now),
                                              !.current_block = "A",
                                              !.current_case_index = 0]
                  IN  IF CanFlushProgress(prog, touched)
                        THEN /\ progress' = FlushProgress(prog, touched)
                             /\ sessions' = sessions
                             /\ Respond(c, "enter_session", "ok",
                                   enter_session_result(session_id, session, touched, FALSE))
                        ELSE /\ UNCHANGED <<sessions, progress>>
                             /\ Respond(c, "enter_session", "500", None)
    /\ history' = IF reply'[1].status = "ok" /\ reply'[1].value.is_new_session
                     THEN [history EXCEPT ![conn[c].arg.session_id] = NoHistory]
                     ELSE history
    /\ UNCHANGED <<config, dbWriter, now, allocation, dataset>>

\* enter_session whose first entry inserts its progress row although the
\* session already has one (no uq_session_progress).
enter_session_NoUniqueProgress(c) ==
    /\ Serving(c, "enter_session", "loaded")
    /\ dbWriter = "none"
    /\ LET session_id == conn[c].arg.session_id
           session == conn[c].snap[1].session
       IN  IF session.case_order_block_a = None
             THEN \E shuffled_a \in shuffle(conn[c].arg.block_a_cases),
                     shuffled_b \in shuffle(conn[c].arg.block_b_cases) :
                    LET entered == [session EXCEPT
                                      !.case_order_block_a = Some(shuffled_a),
                                      !.case_order_block_b = Some(shuffled_b),
                                      !.status = "in_progress"]
                        new_progress == SessionProgress(NextProgressId, session_id, now)
                    IN  /\ sessions' = FlushSession(session_id, session, entered)
                        /\ progress' = progress \cup {new_progress}
                        /\ Respond(c, "enter_session", "ok",
                              enter_session_result(session_id, entered,
                                                   new_progress, TRUE))
             ELSE LET prog == conn[c].snap[1].progress[1]
                      touched == [prog EXCEPT !.last_accessed_at = Some(now)]
                  IN  IF CanFlushProgress(prog, touched)
                        THEN /\ progress' = FlushProgress(prog, touched)
                             /\ sessions' = sessions
                             /\ Respond(c, "enter_session", "ok",
                                   enter_session_result(session_id, session, prog, FALSE))
                        ELSE /\ UNCHANGED <<sessions, progress>>
                             /\ Respond(c, "enter_session", "500", None)
    /\ history' = IF reply'[1].status = "ok" /\ reply'[1].value.is_new_session
                     THEN [history EXCEPT ![conn[c].arg.session_id] = NoHistory]
                     ELSE history
    /\ UNCHANGED <<config, dbWriter, now, allocation, dataset>>

\* enter_session from its commit on.  First entry: the shuffled orders, the
\* status and a new progress row are written in one transaction (the INSERT
\* fails on uq_session_progress).  Re-entry: last_accessed_at is written.
enter_session(c) ==
    /\ Serving(c, "enter_session", "loaded")
    /\ dbWriter = "none"
    /\ LET session_id == conn[c].arg.session_id
           session == conn[c].snap[1].session
       IN  IF session.case_order_block_a = None
             THEN \E shuffled_a \in shuffle(conn[c].arg.block_a_cases),
                     shuffled_b \in shuffle(conn[c].arg.block_b_cases) :
                    LET entered == [session EXCEPT
                                      !.case_order_block_a = Some(shuffled_a),
                                      !.case_order_block_b = Some(shuffled_b),
                                      !.status = "in_progress"]
                        new_progress == SessionProgress(NextProgressId, session_id, now)
                    IN  IF ProgressOf(session_id) # {}
                          THEN /\ UNCHANGED <<sessions, progress>>
                               /\ Respond(c, "enter_session", "500", None)
                          ELSE /\ sessions' = FlushSession(session_id, session, entered)
                               /\ progress' = progress \cup {new_progress}
                               /\ Respond(c, "enter_session", "ok",
                                     enter_session_result(session_id, entered,
                                                          new_progress, TRUE))
             ELSE LET prog == conn[c].snap[1].progress[1]
                      touched == [prog EXCEPT !.last_accessed_at = Some(now)]
                  IN  IF CanFlushProgress(prog, touched)
                        THEN /\ progress' = FlushProgress(prog, touched)
                             /\ sessions' = sessions
                             /\ Respond(c, "enter_session", "ok",
                                   enter_session_result(session_id, session, prog, FALSE))
                        ELSE /\ UNCHANGED <<sessions, progress>>
                             /\ Respond(c, "enter_session", "500", None)
    /\ history' = IF reply'[1].status = "ok" /\ reply'[1].value.is_new_session
                     THEN [history EXCEPT ![conn[c].arg.session_id] = NoHistory]
                     ELSE history
    /\ UNCHANGED <<config, dbWriter, now, allocation, dataset>>

\* current_case reporting last-in-block only at the index of the last case.
current_case_ExactLast(session, prog) ==
    IF session.status = "completed"
      THEN [session_code |-> session.session_code, is_session_complete |-> TRUE,
            block |-> None, mode |-> None, case_id |-> None, case_index |-> None,
            total_cases_in_block |-> 0, is_last_in_block |-> TRUE]
    ELSE LET order == case_order(session, prog[1].current_block)
             current_index == prog[1].current_case_index
             total_in_block == Len(order)
             is_last_in_block == current_index = total_in_block - 1
         IN  [session_code |-> session.session_code,
              block |-> Some(prog[1].current_block),
              mode |-> Some(block_mode(session, prog[1].current_block)),
              case_id |-> IF current_index < total_in_block
                            THEN Some(order[current_index + 1]) ELSE None,
              case_index |-> Some(current_index),
              total_cases_in_block |-> total_in_block,
              is_last_in_block |-> is_last_in_block,
              is_session_complete |-> /\ prog[1].current_block = "B"
                                      /\ is_last_in_block
                                      /\ current_index >= total_in_block]

\* What get_current_case computes from a session and its progress row.
current_case(session, prog) ==
    IF session.status = "completed"
      THEN [session_code |-> session.session_code, is_session_complete |-> TRUE,
            block |-> None, mode |-> None, case_id |-> None, case_index |-> None,
            total_cases_in_block |-> 0, is_last_in_block |-> TRUE]
    ELSE LET order == case_order(session, prog[1].current_block)
             current_index == prog[1].current_case_index
             total_in_block == Len(order)
             is_last_in_block == current_index >= total_in_block - 1
         IN  [session_code |-> session.session_code,
              block |-> Some(prog[1].current_block),
              mode |-> Some(block_mode(session, prog[1].current_block)),
              case_id |-> IF current_index < total_in_block
                            THEN Some(order[current_index + 1]) ELSE None,
              case_index |-> Some(current_index),
              total_cases_in_block |-> total_in_block,
              is_last_in_block |-> is_last_in_block,
              is_session_complete |-> /\ prog[1].current_block = "B"
                                      /\ is_last_in_block
                                      /\ current_index >= total_in_block]

\* get_current_case that marks the session completed when it computes
\* is_session_complete.
get_current_case_Completing(c, session_id, reader_id) ==
    /\ conn[c].pc = "idle"
    /\ LET found == get_session_by_id(session_id)
       IN  IF found = None
             THEN /\ Respond(c, "get_current_case", "400", <<"not_found">>)
                  /\ sessions' = sessions
           ELSE IF found[1].session.reader_id # reader_id
             THEN /\ Respond(c, "get_current_case", "403", <<"not_owner">>)
                  /\ sessions' = sessions
           ELSE IF found[1].session.status # "completed" /\ found[1].progress = None
             THEN /\ Respond(c, "get_current_case", "400", <<"not_started">>)
                  /\ sessions' = sessions
           ELSE LET out == current_case(found[1].session, found[1].progress)
                IN  /\ Respond(c, "get_current_case", "ok", out)
                    /\ sessions' = IF out.is_session_complete
                                     THEN [sessions EXCEPT ![session_id].status = "completed"]
                                     ELSE sessions
    /\ UNCHANGED <<config, progress, dbWriter, now, allocation, dataset, history>>

get_current_case(c, session_id, reader_id) ==
    /\ conn[c].pc = "idle"
    /\ LET found == get_session_by_id(session_id)
       IN  IF found = None
             THEN Respond(c, "get_current_case", "400", <<"not_found">>)
           ELSE IF found[1].session.reader_id # reader_id
             THEN Respond(c, "get_current_case", "403", <<"not_owner">>)
           ELSE IF found[1].session.status # "completed" /\ found[1].progress = None
             THEN Respond(c, "get_current_case", "400", <<"not_started">>)
           ELSE Respond(c, "get_current_case", "ok",
                        current_case(found[1].session, found[1].progress))
    /\ UNCHANGED <<config, sessions, progress, dbWriter, now, allocation, dataset, history>>

\* advance_to_next_case that keeps only the latest completed case id.
advance_body_LastOnly(session, prog, completed_case_id, t) ==
    LET completed_cases == <<completed_case_id>>
        total_in_block == Len(case_order(session, prog.current_block))
        next_index == prog.current_case_index + 1
        recorded == [prog EXCEPT !.completed_cases = completed_cases,
                                 !.last_accessed_at = Some(t)]
    IN  IF next_index >= total_in_block
          THEN IF prog.current_block = "A"
                 THEN [session  |-> session,
                       progress |-> [recorded EXCEPT !.current_block = "B",
                                                     !.current_case_index = 0]]
                 ELSE [session  |-> [session EXCEPT !.status = "completed"],
                       progress |-> [recorded EXCEPT !.completed_at = Some(t)]]
          ELSE [session  |-> session,
                progress |-> [recorded EXCEPT !.current_case_index = next_index]]

\* advance_to_next_case leaving a block one call late (next_index > total).
advance_body_LateExit(session, prog, completed_case_id, t) ==
    LET completed_cases == IF completed_case_id \notin Range(prog.completed_cases)
                             THEN Append(prog.completed_cases, completed_case_id)
                             ELSE prog.completed_cases
        total_in_block == Len(case_order(session, prog.current_block))
        next_index == prog.current_case_index + 1
        recorded == [prog EXCEPT !.completed_cases = completed_cases,
                                 !.last_accessed_at = Some(t)]
    IN  IF next_index > total_in_block
          THEN IF prog.current_block = "A"
                 THEN [session  |-> session,
                       progress |-> [recorded EXCEPT !.current_block = "B",
                                                     !.current_case_index = 0]]
                 ELSE [session  |-> [session EXCEPT !.status = "completed"],
                       progress |-> [recorded EXCEPT !.completed_at = Some(t)]]
          ELSE [session  |-> session,
                progress |-> [recorded EXCEPT !.current_case_index = next_index]]

\* advance_to_next_case between the load and the commit, at time t: the session
\* and progress rows the unit of work holds afterwards.
advance_body(session, prog, completed_case_id, t) ==
    LET completed_cases == IF completed_case_id \notin Range(prog.completed_cases)
                             THEN Append(prog.completed_cases, completed_case_id)
                             ELSE prog.completed_cases
        total_in_block == Len(case_order(session, prog.current_block))
        next_index == prog.current_case_index + 1
        recorded == [prog EXCEPT !.completed_cases = completed_cases,
                                 !.last_accessed_at = Some(t)]
    IN  IF next_index >= total_in_block
          THEN IF prog.current_block = "A"
                 THEN [session  |-> session,
                       progress |-> [recorded EXCEPT !.current_block = "B",
                                                     !.current_case_index = 0]]
                 ELSE [session  |-> [session EXCEPT !.status = "completed"],
                       progress |-> [recorded EXCEPT !.completed_at = Some(t)]]
          ELSE [session  |-> session,
                progress |-> [recorded EXCEPT !.current_case_index = next_index]]

\* advance_to_next_case_begin without the completed-session check.
advance_to_next_case_begin_NoCompletedCheck(c, session_id, reader_id, completed_case_id) ==
    /\ conn[c].pc = "idle"
    /\ LET found == get_session_by_id(session_id)
           arg == [session_id |-> session_id, reader_id |-> reader_id,
                   completed_case_id |-> completed_case_id]
       IN  IF found = None
             THEN Respond(c, "advance_to_next_case", "400", <<"not_found">>)
           ELSE IF found[1].session.reader_id # reader_id
             THEN Respond(c, "advance_to_next_case", "403", <<"not_owner">>)
           ELSE IF found[1].progress = None
             THEN Respond(c, "advance_to_next_case", "400", <<"not_started">>)
           ELSE LoadSession(c, "advance_to_next_case", arg, found)
    /\ UNCHANGED <<config, sessions, progress, dbWriter, now, allocation, dataset, history>>

\* advance_to_next_case up to its commit: the checks on the loaded session.
advance_to_next_case_begin(c, session_id, reader_id, completed_case_id) ==
    /\ conn[c].pc = "idle"
    /\ LET found == get_session_by_id(session_id)
           arg == [session_id |-> session_id, reader_id |-> reader_id,
                   completed_case_id |-> completed_case_id]
       IN  IF found = None
             THEN Respond(c, "advance_to_next_case", "400", <<"not_found">>)
           ELSE IF found[1].session.reader_id # reader_id
             THEN Respond(c, "advance_to_next_case", "403", <<"not_owner">>)
           ELSE IF found[1].session.status = "completed"
             THEN Respond(c, "advance_to_next_case", "400", <<"completed">>)
           ELSE IF found[1].progress = None
             THEN Respond(c, "advance_to_next_case", "400", <<"not_started">>)
           ELSE LoadSession(c, "advance_to_next_case", arg, found)
    /\ UNCHANGED <<config, sessions, progress, dbWriter, now, allocation, dataset, history>>

\* advance_to_next_case from its commit on; it returns get_current_case of the
\* rows its unit of work holds.
advance_to_next_case(c) ==
    /\ Serving(c, "advance_to_next_case", "loaded")
    /\ dbWriter = "none"
    /\ LET session_id == conn[c].arg.session_id
           session == conn[c].snap[1].session
           prog == conn[c].snap[1].progress[1]
           out == advance_body(session, prog, conn[c].arg.completed_case_id, now)
       IN  IF CanFlushProgress(prog, out.progress)
             THEN /\ sessions' = FlushSession(session_id, session, out.session)
                  /\ progress' = FlushProgress(prog, out.progress)
                  /\ Respond(c, "advance_to_next_case", "ok",
                             current_case(out.session, Some(out.progress)))
             ELSE /\ UNCHANGED <<sessions, progress>>
                  /\ Respond(c, "advance_to_next_case", "500", None)
    /\ history' = IF reply'[1].status = "ok"
                     THEN [history EXCEPT ![conn[c].arg.session_id] =
                             [advances |-> @.advances + 1,
                              last |-> Some(conn[c].arg.completed_case_id)]]
                     ELSE history
    /\ UNCHANGED <<config, dbWriter, now, allocation, dataset>>

\* The (reader, session code) pair already has a row (uq_reader_session).
SessionExists(reader_id, session_code) ==
    \E i \in DOMAIN sessions :
        sessions[i].reader_id = reader_id /\ sessions[i].session_code = session_code

\* create_session_for_reader up to its commit: reader, group, mapping key and
\* duplicate checks.
create_session_for_reader_begin(c, reader_id, session_code, k_max, ai_threshold) ==
    /\ conn[c].pc = "idle"
    /\ LET arg == [reader_id |-> reader_id, session_code |-> session_code,
                   k_max |-> k_max, ai_threshold |-> ai_threshold]
       IN  IF reader_id \notin DOMAIN ReaderGroup
             THEN Respond(c, "create_session_for_reader", "400", <<"no_reader">>)
           ELSE IF ReaderGroup[reader_id] = None
             THEN Respond(c, "create_session_for_reader", "400", <<"no_group">>)
           ELSE IF <<ReaderGroup[reader_id][1], session_code>> \notin DOMAIN CROSSOVER_MAPPING
             THEN Respond(c, "create_session_for_reader", "400", <<"bad_combination">>)
           ELSE IF SessionExists(reader_id, session_code)
             THEN Respond(c, "create_session_for_reader", "400", <<"exists">>)
           ELSE LoadSession(c, "create_session_for_reader", arg, None)
    /\ UNCHANGED <<config, sessions, progress, dbWriter, now, allocation, dataset, history>>

\* create_session_for_reader whose INSERT is not checked against
\* uq_reader_session.
create_session_for_reader_NoUnique(c) ==
    /\ Serving(c, "create_session_for_reader", "loaded")
    /\ dbWriter = "none"
    /\ LET arg == conn[c].arg
           modes == CROSSOVER_MAPPING[<<ReaderGroup[arg.reader_id][1], arg.session_code>>]
           session == StudySession(arg.reader_id, arg.session_code, modes,
                                   arg.k_max, arg.ai_threshold)
       IN  /\ sessions' = Append(sessions, session)
           /\ Respond(c, "create_session_for_reader", "ok",
                      [session_id |-> Len(sessions) + 1, session |-> session])
    /\ history' = IF reply'[1].status = "ok" THEN Append(history, NoHistory) ELSE history
    /\ UNCHANGED <<config, progress, dbWriter, now, allocation, dataset>>

\* create_session_for_reader from its commit on: the INSERT (which fails on
\* uq_reader_session) and the row the route reports.
create_session_for_reader(c) ==
    /\ Serving(c, "create_session_for_reader", "loaded")
    /\ dbWriter = "none"
    /\ LET arg == conn[c].arg
           modes == CROSSOVER_MAPPING[<<ReaderGroup[arg.reader_id][1], arg.session_code>>]
           session == StudySession(arg.reader_id, arg.session_code, modes,
                                   arg.k_max, arg.ai_threshold)
       IN  IF SessionExists(arg.reader_id, arg.session_code)
             THEN /\ sessions' = sessions
                  /\ Respond(c, "create_session_for_reader", "500", None)
             ELSE /\ sessions' = Append(sessions, session)
                  /\ Respond(c, "create_session_for_reader", "ok",
                             [session_id |-> Len(sessions) + 1, session |-> session])
    /\ history' = IF reply'[1].status = "ok" THEN Append(history, NoHistory) ELSE history
    /\ UNCHANGED <<config, progress, dbWriter, now, allocation, dataset>>

\* reset_session up to its commit.
reset_session_begin(c, session_id) ==
    /\ conn[c].pc = "idle"
    /\ LET found == get_session_by_id(session_id)
       IN  IF found = None
             THEN Respond(c, "reset_session", "400", <<"not_found">>)
             ELSE LoadSession(c, "reset_session", [session_id |-> session_id], found)
    /\ UNCHANGED <<config, sessions, progress, dbWriter, now, allocation, dataset, history>>

\* reset_session that leaves the progress row in place.
reset_session_KeepsProgress(c) ==
    /\ Serving(c, "reset_session", "loaded")
    /\ dbWriter = "none"
    /\ LET session_id == conn[c].arg.session_id
           session == conn[c].snap[1].session
           cleared == [session EXCEPT !.case_order_block_a = None,
                                      !.case_order_block_b = None,
                                      !.status = "pending"]
       IN  /\ sessions' = FlushSession(session_id, session, cleared)
           /\ progress' = progress
           /\ Respond(c, "reset_session", "ok", None)
    /\ history' = [history EXCEPT ![conn[c].arg.session_id] = NoHistory]
    /\ UNCHANGED <<config, dbWriter, now, allocation, dataset>>

\* reset_session from its commit on: orders cleared, status pending, the loaded
\* progress row deleted.
reset_session(c) ==
    /\ Serving(c, "reset_session", "loaded")
    /\ dbWriter = "none"
    /\ LET session_id == conn[c].arg.session_id
           session == conn[c].snap[1].session
           cleared == [session EXCEPT !.case_order_block_a = None,
                                      !.case_order_block_b = None,
                                      !.status = "pending"]
       IN  /\ sessions' = FlushSession(session_id, session, cleared)
           /\ progress' = IF conn[c].snap[1].progress = None THEN progress
                          ELSE progress \ ProgressById(conn[c].snap[1].progress[1].id)
           /\ Respond(c, "reset_session", "ok", None)
    /\ history' = [history EXCEPT ![conn[c].arg.session_id] = NoHistory]
    /\ UNCHANGED <<config, dbWriter, now, allocation, dataset>>

(***************************************************************************)
(* The session engine alone: one session of a group-1 reader, requests     *)
(* served one at a time.                                                   *)
(***************************************************************************)
MaxBlockLen == 2

\* Case identifiers as the client sends them.
CasePool == <<"k1", "k2", "k3">>
CaseIds == Range(CasePool)

Reverse(seq) == [i \in DOMAIN seq |-> seq[Len(seq) + 1 - i]]

\* Block lists as the client sends them: block A is empty, holds MaxBlockLen
\* cases or names one case twice; block B is empty or holds MaxBlockLen - 1
\* cases, the last of which block A holds too when it is longer than one.
BlockAChoices == {<<>>, SubSeq(CasePool, 1, MaxBlockLen), <<"k1", "k1">>}
BlockBChoices == {<<>>, SubSeq(Reverse(CasePool), 1, MaxBlockLen - 1)}

\* SessionAssignRequest: k_max and ai_threshold at their defaults.
AssignDefaults == [k_max |-> 3, ai_threshold |-> 30]

\* Reader 1 (group 1), reader 3 (no group) and a reader id that does not exist.
AssignRequests == {<<1, "S1">>, <<3, "S1">>, <<4, "S1">>}

\* Session 1 exists once assigned; session 2 never does.
SessionIds == {1, 2}

NextSession ==
    \/ \E req \in AssignRequests :
          create_session_for_reader_begin("c1", req[1], req[2],
                                          AssignDefaults.k_max, AssignDefaults.ai_threshold)
    \/ create_session_for_reader("c1")
    \/ \E session_id \in SessionIds, reader_id \in ReaderIds,
          block_a_cases \in BlockAChoices, block_b_cases \in BlockBChoices :
          enter_session_begin("c1", session_id, reader_id, block_a_cases, block_b_cases)
    \/ enter_session("c1")
    \/ \E session_id \in SessionIds, reader_id \in ReaderIds :
          get_current_case("c1", session_id, reader_id)
    \/ \E session_id \in SessionIds, reader_id \in ReaderIds, completed_case_id \in CaseIds :
          advance_to_next_case_begin("c1", session_id, reader_id, completed_case_id)
    \/ advance_to_next_case("c1")
    \/ \E session_id \in SessionIds : reset_session_begin("c1", session_id)
    \/ reset_session("c1")

SpecSession == Init /\ [][NextSession]_vars

(***************************************************************************)
(* Properties of the session engine (checked under SpecSession).           *)
(***************************************************************************)
\* The cursor and the completed set a progress table holds for a session.
CursorOf(table, session_id) ==
    {<<p.current_block, p.current_case_index, p.completed_cases>> :
        p \in {q \in table : q.session_id = session_id}}

\* C4: an advance call carrying the same completed_case_id as the successful
\* advance call served just before it for the session leaves the (block, index)
\* cursor and the completed set as the first call left them.
C4_RepeatedAdvanceKeepsCursor ==
    [][\A c \in Conns :
         (/\ advance_to_next_case(c)
          /\ history[conn[c].arg.session_id].last = Some(conn[c].arg.completed_case_id))
         => CursorOf(progress', conn[c].arg.session_id)
              = CursorOf(progress, conn[c].arg.session_id)]_vars

Entered(i) == sessions[i].case_order_block_a # None

\* The advance calls a block takes: one per case, and one for an empty block.
BlockSteps(order) == IF Len(order) = 0 THEN 1 ELSE Len(order)

\* C5 as stated: a session entered with block lists a and b is completed after
\* exactly Len(a) + Len(b) successful advance calls and not after fewer.
C5_CompletedAfterSumOfLengths ==
    \A i \in DOMAIN sessions :
        Entered(i) =>
            LET n == Len(case_order(sessions[i], "A")) + Len(case_order(sessions[i], "B"))
            IN  (sessions[i].status = "completed") <=> (history[i].advances >= n)

\* C5 amended: with calls served one at a time, a session entered with block
\* lists a and b is completed after exactly max(Len(a), 1) + max(Len(b), 1)
\* successful advance calls, not after fewer, and no further advance succeeds.
C5_CompletedAfterBlockSteps ==
    \A i \in DOMAIN sessions :
        Entered(i) =>
            LET n == BlockSteps(case_order(sessions[i], "A"))
                     + BlockSteps(case_order(sessions[i], "B"))
            IN  /\ history[i].advances <= n
                /\ (sessions[i].status = "completed") <=> (history[i].advances = n)

\* A session entered with two cases in block A and none in block B has been
\* completed by its third advance call.
C5_Witness ==
    \E i \in DOMAIN sessions :
        /\ Entered(i)
        /\ Len(case_order(sessions[i], "A")) = 2
        /\ Len(case_order(sessions[i], "B")) = 0
        /\ sessions[i].status = "completed"
        /\ history[i].advances = 3

(***************************************************************************)
(* CaseDiscoveryService: allocation of the dataset's cases to sessions and *)
(* blocks (services/case_discovery_service.py, routers/case.py).           *)
(***************************************************************************)
\* f"S{session_num}" and f"block_{block_name.lower()}".
SessionCodeOf == <<"S1", "S2", "S3">>
BlockKeyOf == <<"block_a", "block_b", "block_c">>

\* get_case_ids_by_category: the scanned lists, each shuffled on request.
get_case_ids_by_category(do_shuffle) ==
    IF do_shuffle
      THEN shuffle(dataset.positive) \X shuffle(dataset.negative)
      ELSE {<<dataset.positive, dataset.negative>>}

\* block_part that never moves pos_idx and neg_idx on.
block_part_FromStart(positive_ids, negative_ids, num_blocks, block_idx) ==
    LET pos_per_block == Len(positive_ids) \div num_blocks
        neg_per_block == Len(negative_ids) \div num_blocks
    IN  SubSeq(positive_ids, 1, pos_per_block) \o SubSeq(negative_ids, 1, neg_per_block)

\* block_part that slices the positive list only.
block_part_PositiveOnly(positive_ids, negative_ids, num_blocks, block_idx) ==
    LET pos_per_block == Len(positive_ids) \div num_blocks
    IN  SubSeq(positive_ids, block_idx * pos_per_block + 1, (block_idx + 1) * pos_per_block)

\* The slices positive_ids[pos_idx : pos_idx + pos_per_block] and
\* negative_ids[neg_idx : neg_idx + neg_per_block] of block block_idx, joined.
block_part(positive_ids, negative_ids, num_blocks, block_idx) ==
    LET pos_per_block == Len(positive_ids) \div num_blocks
        neg_per_block == Len(negative_ids) \div num_blocks
    IN  SubSeq(positive_ids, block_idx * pos_per_block + 1, (block_idx + 1) * pos_per_block)
        \o SubSeq(negative_ids, block_idx * neg_per_block + 1, (block_idx + 1) * neg_per_block)

\* allocate_cases_to_session that cuts the block parts anew for every session.
allocate_cases_to_session_PartsPerSession(num_sessions, num_blocks, do_shuffle) ==
    LET codes == {SessionCodeOf[s] : s \in 1..num_sessions}
        keys == {BlockKeyOf[b] : b \in 1..num_blocks}
        index(key) == CHOOSE b \in 1..num_blocks : BlockKeyOf[b] = key
        pos_per_block == Len(dataset.positive) \div num_blocks
        neg_per_block == Len(dataset.negative) \div num_blocks
        session_blocks ==
          UNION {
            LET part(key) == block_part(ids[1], ids[2], num_blocks, index(key) - 1)
                orders(key) == IF do_shuffle THEN shuffle(part(key)) ELSE {part(key)}
            IN  {b \in [keys -> UNION {orders(k) : k \in keys}] :
                   \A key \in keys : b[key] \in orders(key)}
            : ids \in get_case_ids_by_category(do_shuffle)}
    IN  {[total_cases        |-> Len(dataset.positive) + Len(dataset.negative),
          usable_cases       |-> (pos_per_block + neg_per_block) * num_blocks,
          cases_per_session  |-> (pos_per_block + neg_per_block) * num_blocks,
          cases_per_block    |-> pos_per_block + neg_per_block,
          positive_per_block |-> pos_per_block,
          negative_per_block |-> neg_per_block,
          sessions           |-> blocks] :
           blocks \in [codes -> session_blocks]}

\* The dictionaries allocate_cases_to_session can return.
allocate_cases_to_session(num_sessions, num_blocks, do_shuffle) ==
    LET codes == {SessionCodeOf[s] : s \in 1..num_sessions}
        keys == {BlockKeyOf[b] : b \in 1..num_blocks}
        index(key) == CHOOSE b \in 1..num_blocks : BlockKeyOf[b] = key
    IN  UNION {
          LET positive_ids == ids[1]
              negative_ids == ids[2]
              pos_per_block == Len(positive_ids) \div num_blocks
              neg_per_block == Len(negative_ids) \div num_blocks
              part(key) == block_part(positive_ids, negative_ids, num_blocks, index(key) - 1)
              orders(key) == IF do_shuffle THEN shuffle(part(key)) ELSE {part(key)}
              session_blocks == {b \in [keys -> UNION {orders(k) : k \in keys}] :
                                   \A key \in keys : b[key] \in orders(key)}
          IN  {[total_cases        |-> Len(positive_ids) + Len(negative_ids),
                usable_cases       |-> (pos_per_block + neg_per_block) * num_blocks,
                cases_per_session  |-> (pos_per_block + neg_per_block) * num_blocks,
                cases_per_block    |-> pos_per_block + neg_per_block,
                positive_per_block |-> pos_per_block,
                negative_per_block |-> neg_per_block,
                sessions           |-> blocks] :
                 blocks \in [codes -> session_blocks]}
          : ids \in get_case_ids_by_category(do_shuffle)}

\* GET /case/allocate: the client keeps the response.
allocate_cases(num_sessions, num_blocks, do_shuffle) ==
    /\ \E result \in allocate_cases_to_session(num_sessions, num_blocks, do_shuffle) :
          allocation' = Some(result)
    /\ UNCHANGED <<config, sessions, progress, dbWriter, conn, now, reply, dataset, history>>

\* POST /sessions/{id}/enter with the block lists the kept allocation holds for
\* the session's code.
enter_with_allocation(c, session_id, reader_id) ==
    /\ allocation # None
    /\ session_id \in DOMAIN sessions
    /\ sessions[session_id].session_code \in DOMAIN allocation[1].sessions
    /\ enter_session_begin(c, session_id, reader_id,
           allocation[1].sessions[sessions[session_id].session_code].block_a,
           allocation[1].sessions[sessions[session_id].session_code].block_b)

\* get_block_modes_from_config: the modes of blocks A and B that the stored
\* crossover mapping gives a group in a session.
GroupKeyOf == <<"group_1", "group_2", "group_3">>

get_block_modes_from_config(cfg, group, session_code) ==
    LET mapping == json_loads(cfg.crossover_mapping, 3)
        group_key == GroupKeyOf[group]
        session_mapping == IF group_key \in DOMAIN mapping
                              /\ session_code \in DOMAIN mapping[group_key]
                             THEN mapping[group_key][session_code]
                             ELSE <<>>
    IN  << IF "block_A" \in DOMAIN session_mapping THEN session_mapping["block_A"]
           ELSE "UNAIDED",
           IF "block_B" \in DOMAIN session_mapping THEN session_mapping["block_B"]
           ELSE "AIDED" >>

(***************************************************************************)
(* The study as the routes wire it: configuration, assignment, entry and   *)
(* advance.  Requests are served on connection c1, and a second  *)
(* entry may run beside them on c2.  No route calls                        *)
(* trigger_lock_if_needed.                                                 *)
(***************************************************************************)
StudyUpdateRequests == {[crossover_mapping |-> Some(SwappedMapping)]}

StudyAssignRequests == {<<1, "S1">>, <<2, "S1">>}

\* The block lists every entry of this specification supplies.
StudyBlocks == [block_a |-> <<"p1">>, block_b |-> <<"p2">>]

NextStudy ==
    \/ get_or_create_config("c1")
    \/ \E data \in StudyUpdateRequests : update_config_begin("c1", data)
    \/ \E a \in AdminIds : manual_lock_begin("c1", a)
    \/ _get_config_locked("c1")
    \/ update_config("c1")
    \/ manual_lock("c1")
    \/ \E req \in StudyAssignRequests :
          create_session_for_reader_begin("c1", req[1], req[2],
              AssignDefaults.k_max, AssignDefaults.ai_threshold)
    \/ create_session_for_reader("c1")
    \/ \E c \in Conns, session_id \in SessionIds, reader_id \in ReaderIds :
          enter_session_begin(c, session_id, reader_id,
                              StudyBlocks.block_a, StudyBlocks.block_b)
    \/ \E c \in Conns : enter_session(c)
    \/ \E session_id \in SessionIds, reader_id \in ReaderIds,
          completed_case_id \in Range(StudyBlocks.block_a) :
          advance_to_next_case_begin("c1", session_id, reader_id, completed_case_id)
    \/ advance_to_next_case("c1")

SpecStudy == Init /\ [][NextStudy]_vars

(***************************************************************************)
(* Properties of the study (checked under SpecStudy).                      *)
(***************************************************************************)
\* C1: in every reachable state in which some session has been entered (its
\* status is in_progress or completed), the stored configuration is locked.
C1_EnteredSessionImpliesLocked ==
    (/\ \E i \in DOMAIN sessions : sessions[i].status \in {"in_progress", "completed"}
     /\ config # None)
        => config[1].is_locked

\* Connection c makes the first entry of a session in this step.
FirstEntry(c) ==
    /\ enter_session(c)
    /\ reply'[1].status = "ok"
    /\ reply'[1].value.is_new_session

\* Connection d is in the middle of a first entry of a session other than c's.
OtherFirstEntryPending(c, d) ==
    /\ d # c
    /\ Serving(d, "enter_session", "loaded")
    /\ conn[d].snap[1].session.case_order_block_a = None
    /\ conn[d].arg.session_id # conn[c].arg.session_id

\* C3: of two concurrent first entries for different sessions on an unlocked
\* configuration one obtains the lock: when the first of them returns, is_locked
\* has changed from false to true.
C3_ConcurrentFirstEntriesLock ==
    [][\A c, d \in Conns :
         (FirstEntry(c) /\ OtherFirstEntryPending(c, d) /\ config # None /\ ~Locked)
         => (config' # None /\ config'[1].is_locked)]_vars

\* C6: a session created by create_session_for_reader carries the block modes
\* that the crossover mapping stored in StudyConfig at that moment gives the
\* reader's group in the session.
C6_ModesFromStoredMapping ==
    [][\A c \in Conns :
         (create_session_for_reader(c) /\ reply'[1].status = "ok" /\ config # None)
         => LET created == reply'[1].value.session
                group == ReaderGroup[created.reader_id][1]
            IN  <<created.block_a_mode, created.block_b_mode>>
                  = get_block_modes_from_config(config[1], group, created.session_code)]_vars

(***************************************************************************)
(* The crossover: sessions S1 and S2 of a group-1 reader and session S2 of *)
(* a group-2 reader, entered with allocated block lists, requests served   *)
(* one at a time.                                                          *)
(***************************************************************************)
\* GET /case/allocate?num_sessions=2 with num_blocks at its default.
AllocateDefaults == [num_sessions |-> 2, num_blocks |-> 2]

CrossoverAssignRequests == {<<1, "S1">>, <<1, "S2">>, <<2, "S2">>}

CrossoverSessionIds == 1..Cardinality(CrossoverAssignRequests)

NextCrossover ==
    \/ \E do_shuffle \in BOOLEAN :
          allocate_cases(AllocateDefaults.num_sessions, AllocateDefaults.num_blocks, do_shuffle)
    \/ \E req \in CrossoverAssignRequests :
          create_session_for_reader_begin("c1", req[1], req[2],
              AssignDefaults.k_max, AssignDefaults.ai_threshold)
    \/ create_session_for_reader("c1")
    \/ \E session_id \in CrossoverSessionIds, reader_id \in ReaderIds :
          enter_with_allocation("c1", session_id, reader_id)
    \/ enter_session("c1")

SpecCrossover == Init /\ [][NextCrossover]_vars

\* Session i shows case x in a block of the given mode.
ReadUnder(i, x, mode) ==
    \E block \in {"A", "B"} :
        /\ block_mode(sessions[i], block) = mode
        /\ x \in Range(case_order(sessions[i], block))

CasesOf(i) ==
    Range(case_order(sessions[i], "A")) \cup Range(case_order(sessions[i], "B"))

\* C7: when sessions S1 and S2 of a reader have both been entered with the
\* allocator's block lists, every case of either session is read AIDED in
\* exactly one of the two sessions and UNAIDED in the other.
C7_EveryCaseReadUnderBothModes ==
    \A i, j \in DOMAIN sessions :
        (/\ sessions[i].reader_id = sessions[j].reader_id
         /\ sessions[i].session_code = "S1" /\ sessions[j].session_code = "S2"
         /\ Entered(i) /\ Entered(j))
        => \A x \in CasesOf(i) \cup CasesOf(j) :
              \/ /\ ReadUnder(i, x, "AIDED") /\ ~ReadUnder(i, x, "UNAIDED")
                 /\ ReadUnder(j, x, "UNAIDED") /\ ~ReadUnder(j, x, "AIDED")
              \/ /\ ReadUnder(i, x, "UNAIDED") /\ ~ReadUnder(i, x, "AIDED")
                 /\ ReadUnder(j, x, "AIDED") /\ ~ReadUnder(j, x, "UNAIDED")

(***************************************************************************)
(* Validation of crossover mappings and group names by update_config:      *)
(* requests served one at a time on an unlocked or manually locked         *)
(* configuration.                                                          *)
(***************************************************************************)
MissingSessionMapping ==
    [ group_1 |-> [ S1 |-> [block_A |-> "AIDED",   block_B |-> "UNAIDED"] ],
      group_2 |-> [ S1 |-> [block_A |-> "UNAIDED", block_B |-> "AIDED"],
                    S2 |-> [block_A |-> "AIDED",   block_B |-> "UNAIDED"] ] ]

MissingBlockMapping ==
    [ group_1 |-> [ S1 |-> [block_A |-> "AIDED"],
                    S2 |-> [block_A |-> "UNAIDED", block_B |-> "AIDED"] ],
      group_2 |-> [ S1 |-> [block_A |-> "UNAIDED", block_B |-> "AIDED"],
                    S2 |-> [block_A |-> "AIDED",   block_B |-> "UNAIDED"] ] ]

\* SwappedMapping with one more key at the group, session or block level.
ExtraGroupMapping ==
    [ g \in {"group_1", "group_2", "group_3"} |->
        IF g = "group_3" THEN SwappedMapping["group_1"] ELSE SwappedMapping[g] ]

ExtraSessionMapping ==
    [ SwappedMapping EXCEPT !["group_1"] =
        [ s \in {"S1", "S2", "S3"} |->
            IF s = "S3" THEN SwappedMapping["group_1"]["S1"]
            ELSE SwappedMapping["group_1"][s] ] ]

ExtraBlockMapping ==
    [ SwappedMapping EXCEPT !["group_1"]["S1"] =
        [block_A |-> "AIDED", block_B |-> "UNAIDED", block_C |-> "BOTH"] ]

ThreeNames == [group_1 |-> <<"A">>, group_2 |-> <<"B">>, group_3 |-> <<"C">>]

MappingRequests ==
    { [crossover_mapping |-> Some(SwappedMapping)],
      [crossover_mapping |-> Some(MissingGroupMapping)],
      [crossover_mapping |-> Some(MissingSessionMapping)],
      [crossover_mapping |-> Some(MissingBlockMapping)],
      [crossover_mapping |-> Some(BadModeMapping)],
      [crossover_mapping |-> Some(ExtraGroupMapping)],
      [crossover_mapping |-> Some(ExtraSessionMapping)],
      [crossover_mapping |-> Some(ExtraBlockMapping)],
      [crossover_mapping |-> Some(SwappedMapping), group_names |-> Some(GoodNames)],
      [crossover_mapping |-> Some(ExtraGroupMapping), group_names |-> Some(GoodNames)],
      [crossover_mapping |-> Some(ExtraGroupMapping), group_names |-> Some(ThreeNames)],
      [crossover_mapping |-> Some(SwappedMapping), group_names |-> Some(ThreeNames)],
      [crossover_mapping |-> Some(SwappedMapping), group_names |-> Some(BlankNames)],
      [group_names |-> Some(ThreeNames)] }

NextMapping ==
    \/ get_or_create_config("c1")
    \/ \E data \in MappingRequests : update_config_begin("c1", data)
    \/ \E a \in AdminIds : manual_lock_begin("c1", a)
    \/ _get_config_locked("c1")
    \/ update_config("c1")
    \/ manual_lock("c1")

SpecMapping == Init /\ [][NextMapping]_vars

\* The mapping names exactly group_1 and group_2, each exactly S1 and S2, each
\* exactly block_A and block_B, with modes UNAIDED or AIDED.
ExactMapping(mapping) ==
    /\ DOMAIN mapping = Range(required_groups)
    /\ \A g \in DOMAIN mapping :
          /\ DOMAIN mapping[g] = Range(required_sessions)
          /\ \A s \in DOMAIN mapping[g] :
                /\ DOMAIN mapping[g][s] = Range(required_blocks)
                /\ \A b \in DOMAIN mapping[g][s] : mapping[g][s][b] \in Range(valid_modes)

\* C11: update_config accepts a supplied crossover mapping only if it names
\* exactly the groups group_1 and group_2, each with exactly the sessions S1 and
\* S2, each with exactly the blocks block_A and block_B whose values are UNAIDED
\* or AIDED; a mapping with a missing key, an extra key at any level or another
\* mode value is rejected.
C11_AcceptedMappingIsExact ==
    [][\A c \in Conns :
         (/\ update_config(c)
          /\ Supplied(conn[c].arg, "crossover_mapping")
          /\ reply'[1].status = "ok")
         => ExactMapping(conn[c].arg["crossover_mapping"][1])]_vars

\* C12: when one update_config call supplies both crossover_mapping and
\* group_names, and the mapping passes its own validation on an unlocked
\* configuration, the call is accepted exactly when the group-name map is valid
\* for the group keys of the newly supplied mapping (not of the stored one).
C12_NamesCheckedAgainstSuppliedMapping ==
    [][\A c \in Conns :
         (/\ update_config(c)
          /\ ~conn[c].snap[1].is_locked
          /\ Supplied(conn[c].arg, "crossover_mapping")
          /\ Supplied(conn[c].arg, "group_names")
          /\ _validate_crossover_mapping(conn[c].arg["crossover_mapping"][1]))
         => (reply'[1].status = "ok"
               <=> _validate_group_names(conn[c].arg["group_names"][1],
                                         conn[c].arg["crossover_mapping"][1]))]_vars

LockOps == {"trigger_lock_if_needed", "manual_lock"}

\* C13: manual_lock succeeds on an unlocked configuration even when no session
\* has been entered; any lock call on an already-locked configuration reports
\* false and leaves is_locked, locked_at and locked_by as they were; is_locked
\* never returns to false.
C13_LockIsOneWay ==
    [][/\ Locked =>
            /\ Locked'
            /\ config'[1].locked_at = config[1].locked_at
            /\ config'[1].locked_by = config[1].locked_by
       /\ \A c \in Conns : \A op \in LockOps :
            LockTransition(c, op) =>
               /\ reply'[1].status = "ok"
               /\ IF Locked
                    THEN reply'[1].value = FALSE
                    ELSE /\ reply'[1].value = TRUE
                         /\ Locked'
                         /\ config'[1].locked_by = Some(conn[c].arg)]_vars

\* With no session in the database, a manual lock has been refused on a
\* configuration that another actor had locked.
C13_Witness ==
    /\ sessions = <<>>
    /\ Locked
    /\ LastReply("manual_lock", "ok")
    /\ reply[1].value = FALSE
    /\ config[1].locked_by \notin {Some(a) : a \in AdminIds}

(***************************************************************************)
(* Entry, re-entry, reading and reset of a session (checked under          *)
(* SpecSession).                                                           *)
(***************************************************************************)
\* The fields of the enter result that describe the current case.
EnterProjection ==
    {"current_block", "current_mode", "current_case_id", "current_case_index",
     "total_cases_in_block"}

\* C14: an enter call on a session whose case orders are already set leaves
\* both persisted orders, the cursor and the completed set unchanged whatever
\* block lists it is given, reports is_new_session = false, and, when the call
\* served just before it was an enter of the same session, returns the same
\* current block, mode, case id, index and block size as that call.
C14_ReentryKeepsOrdersAndCursor ==
    [][\A c \in Conns :
         (/\ enter_session(c)
          /\ conn[c].snap[1].session.case_order_block_a # None)
         => LET session_id == conn[c].arg.session_id
            IN  /\ sessions' = sessions
                /\ CursorOf(progress', session_id) = CursorOf(progress, session_id)
                /\ reply'[1].status = "ok"
                /\ reply'[1].value.is_new_session = FALSE
                /\ (/\ LastReply("enter_session", "ok")
                    /\ reply[1].value.session_id = session_id)
                   => \A f \in EnterProjection : reply'[1].value[f] = reply[1].value[f]]_vars

\* A re-entry has been served for a session whose cursor had been advanced by
\* one case (whatever lists the re-entry carried).
C14_Witness ==
    /\ LastReply("enter_session", "ok")
    /\ reply[1].value.is_new_session = FALSE
    /\ reply[1].value.current_block = "A"
    /\ reply[1].value.current_case_index = 1
    /\ reply[1].value.total_cases_in_block = 2

\* The number of positions of a list that hold x.
CountIn(list, x) == Cardinality({i \in DOMAIN list : list[i] = x})

SameMultiset(list1, list2) ==
    /\ Len(list1) = Len(list2)
    /\ \A x \in Range(list1) \cup Range(list2) : CountIn(list1, x) = CountIn(list2, x)

\* C15: on first entry each persisted block case order contains exactly the
\* multiset of case identifiers supplied to enter: block A's order that of
\* block_a_cases and block B's that of block_b_cases.
C15_OrdersArePermutations ==
    [][\A c \in Conns :
         (/\ enter_session(c)
          /\ conn[c].snap[1].session.case_order_block_a = None
          /\ reply'[1].status = "ok")
         => LET entered == sessions'[conn[c].arg.session_id]
            IN  /\ entered.case_order_block_a # None
                /\ entered.case_order_block_b # None
                /\ SameMultiset(case_order(entered, "A"), conn[c].arg.block_a_cases)
                /\ SameMultiset(case_order(entered, "B"), conn[c].arg.block_b_cases)]_vars

\* A first entry has just stored a block A order that differs from the list as
\* the client arranges it (k1, k2).
C15_Witness ==
    /\ LastReply("enter_session", "ok")
    /\ reply[1].value.is_new_session
    /\ \E i \in DOMAIN sessions :
          /\ Entered(i)
          /\ case_order(sessions[i], "A") = <<"k2", "k1">>
          /\ case_order(sessions[i], "B") = <<"k3">>

\* C16: a current call never changes stored progress: session status, case
\* orders, current block, current index and completed set (and every other
\* stored row) are the same before and after every current call, whether it
\* succeeds or fails.
C16_CurrentChangesNothing ==
    [][\A c \in Conns : \A session_id \in SessionIds : \A reader_id \in ReaderIds :
         (LastReply("get_current_case", "ok")' \/ LastReply("get_current_case", "400")'
             \/ LastReply("get_current_case", "403")')
         /\ get_current_case(c, session_id, reader_id)
         => /\ sessions' = sessions
            /\ progress' = progress
            /\ config' = config]_vars

\* A current call has reported the second case of block A of a session in
\* progress.
C16_Witness ==
    /\ LastReply("get_current_case", "ok")
    /\ reply[1].value.block = Some("A")
    /\ reply[1].value.case_index = Some(1)
    /\ reply[1].value.case_id # None
    /\ \E i \in DOMAIN sessions : sessions[i].status = "in_progress"

\* The step serves an enter or advance call of connection c that fails: its
\* checks reject it (the connection answers without loading), or its commit does.
FailedEnterOrAdvance(c) ==
    \/ /\ conn[c].pc = "idle" /\ conn'[c].pc = "idle"
       /\ reply' # reply
       /\ reply'[1].op \in {"enter_session", "advance_to_next_case"}
       /\ reply'[1].status # "ok"
    \/ /\ enter_session(c) \/ advance_to_next_case(c)
       /\ reply'[1].status # "ok"

\* C17: an enter or advance call that fails (the caller is not the owning
\* participant, the session is already completed, or, for advance, the session
\* has not been entered) changes no state: status, case orders, cursor and
\* completed set are unchanged; and a completed session changes in no step
\* other than a reset.
C17_FailedCallsChangeNothing ==
    [][/\ \A c \in Conns :
            FailedEnterOrAdvance(c)
            => /\ reply'[1].status # "ok"
               /\ sessions' = sessions
               /\ progress' = progress
       /\ \A i \in DOMAIN sessions :
            (sessions[i].status = "completed" /\ \A c \in Conns : ~reset_session(c))
            => /\ sessions'[i] = sessions[i]
               /\ ProgressOf(i)' = ProgressOf(i)]_vars

\* An advance call on a completed session has been rejected, and the session
\* is still completed with its progress row.
C17_Witness ==
    /\ LastReply("advance_to_next_case", "400")
    /\ reply[1].value = <<"completed">>
    /\ \E i \in DOMAIN sessions :
          sessions[i].status = "completed" /\ ProgressOf(i) # {}

\* C18: reset_session from any session state (pending, in_progress or
\* completed) leaves the session pending with both case orders unset and no
\* progress row, and the enter call served next behaves as a first entry:
\* is_new_session = true, cursor at block A index 0, empty completed set, and
\* orders that are arrangements of the newly supplied lists.
C18_ResetThenFirstEntry ==
    [][\A c \in Conns :
         /\ reset_session(c)
            => LET after == sessions'[conn[c].arg.session_id]
               IN  /\ reply'[1].status = "ok"
                   /\ after.status = "pending"
                   /\ after.case_order_block_a = None
                   /\ after.case_order_block_b = None
                   /\ CursorOf(progress', conn[c].arg.session_id) = {}
         /\ (enter_session(c) /\ LastReply("reset_session", "ok"))
            => LET session_id == conn[c].arg.session_id
                   after == sessions'[session_id]
               IN  /\ reply'[1].status = "ok"
                   /\ reply'[1].value.is_new_session
                   /\ reply'[1].value.current_block = "A"
                   /\ reply'[1].value.current_case_index = 0
                   /\ after.status = "in_progress"
                   /\ \E a \in shuffle(conn[c].arg.block_a_cases),
                         b \in shuffle(conn[c].arg.block_b_cases) :
                        /\ after.case_order_block_a = Some(a)
                        /\ after.case_order_block_b = Some(b)
                        /\ CursorOf(progress', session_id) = {<<"A", 0, <<>>>>}]_vars

\* The session has been reset: it is pending, without orders and without a
\* progress row.
C18_Witness ==
    /\ LastReply("reset_session", "ok")
    /\ sessions # <<>>
    /\ \A i \in DOMAIN sessions :
          /\ sessions[i].status = "pending"
          /\ sessions[i].case_order_block_a = None
          /\ sessions[i].case_order_block_b = None
    /\ progress = {}

\* The session is in progress in a block that has no case.
InEmptyBlock(session_id, block) ==
    /\ session_id \in DOMAIN sessions
    /\ sessions[session_id].status = "in_progress"
    /\ CursorOf(progress, session_id) # {}
    /\ \A cur \in CursorOf(progress, session_id) : cur[1] = block
    /\ Len(case_order(sessions[session_id], block)) = 0

\* C19: a block with zero cases is immediately exhausted: a first entry with an
\* empty block A succeeds and reports no current case; a current call in an
\* empty block reports last-in-block and no case; and the first advance taken
\* in an empty block moves to block B index 0 (from A) or completes the session
\* (from B).
C19_EmptyBlockExhausted ==
    [][\A c \in Conns :
         /\ (/\ enter_session(c)
             /\ conn[c].snap[1].session.case_order_block_a = None
             /\ conn[c].arg.block_a_cases = <<>>)
            => /\ reply'[1].status = "ok"
               /\ reply'[1].value.current_block = "A"
               /\ reply'[1].value.current_case_id = None
               /\ reply'[1].value.total_cases_in_block = 0
         /\ \A session_id \in SessionIds : \A reader_id \in ReaderIds :
              (/\ LastReply("get_current_case", "ok")'
               /\ get_current_case(c, session_id, reader_id)
               /\ InEmptyBlock(session_id, "A") \/ InEmptyBlock(session_id, "B"))
              => /\ reply'[1].value.is_last_in_block
                 /\ reply'[1].value.case_id = None
         /\ (advance_to_next_case(c) /\ InEmptyBlock(conn[c].arg.session_id, "A"))
            => /\ reply'[1].status = "ok"
               /\ \A cur \in CursorOf(progress', conn[c].arg.session_id) :
                     cur[1] = "B" /\ cur[2] = 0
               /\ sessions'[conn[c].arg.session_id].status = "in_progress"
         /\ (advance_to_next_case(c) /\ InEmptyBlock(conn[c].arg.session_id, "B"))
            => /\ reply'[1].status = "ok"
               /\ sessions'[conn[c].arg.session_id].status = "completed"]_vars

\* A session entered with two empty blocks has been completed by its second
\* advance call.
C19_Witness ==
    /\ LastReply("advance_to_next_case", "ok")
    /\ \E i \in DOMAIN sessions :
          /\ Entered(i)
          /\ case_order(sessions[i], "A") = <<>>
          /\ case_order(sessions[i], "B") = <<>>
          /\ sessions[i].status = "completed"
          /\ history[i].advances = 2

StatusRank(status) ==
    CASE status = "pending" -> 0 [] status = "in_progress" -> 1 [] status = "completed" -> 2

\* A cursor <<block, index, completed>> and one that is at or after it: the
\* completed list is extended, and the block is kept with an index that has
\* not dropped, or changes from A to B with index 0.
Forward(cur, next) ==
    /\ Len(cur[3]) <= Len(next[3])
    /\ SubSeq(next[3], 1, Len(cur[3])) = cur[3]
    /\ \/ next[1] = cur[1] /\ next[2] >= cur[2]
       \/ cur[1] = "A" /\ next[1] = "B" /\ next[2] = 0

\* C20: between two resets the completed set only grows and the position only
\* moves forward along pending -> in_progress (A, 0) -> ... -> in_progress
\* (B, 0) -> ... -> completed: status never goes back and the block never
\* changes from B to A; a successful advance raises the index by one within
\* the block, or moves from A to (B, 0), or completes the session in block B,
\* and an advance whose case id is not yet in the completed set adds exactly it.
C20_ProgressIsMonotonic ==
    [][/\ \A i \in DOMAIN sessions :
            (\A c \in Conns : ~reset_session(c))
            => /\ StatusRank(sessions'[i].status) >= StatusRank(sessions[i].status)
               /\ \A cur \in CursorOf(progress, i) :
                     \E next \in CursorOf(progress', i) : Forward(cur, next)
       /\ \A c \in Conns :
            (advance_to_next_case(c) /\ reply'[1].status = "ok")
            => LET session_id == conn[c].arg.session_id
                   case_id == conn[c].arg.completed_case_id
               IN  \A cur \in CursorOf(progress, session_id) :
                     \E next \in CursorOf(progress', session_id) :
                        /\ next[3] = IF case_id \in Range(cur[3]) THEN cur[3]
                                     ELSE Append(cur[3], case_id)
                        /\ \/ /\ next[1] = cur[1] /\ next[2] = cur[2] + 1
                              /\ sessions'[session_id].status = "in_progress"
                           \/ /\ cur[1] = "A" /\ next[1] = "B" /\ next[2] = 0
                              /\ sessions'[session_id].status = "in_progress"
                           \/ /\ cur[1] = "B" /\ next[1] = "B" /\ next[2] = cur[2]
                              /\ sessions'[session_id].status = "completed"]_vars

\* Two advance calls with distinct case ids have taken a session through its
\* two-case block A to the first case of block B.
C20_Witness ==
    \E i \in DOMAIN sessions :
        /\ sessions[i].status = "in_progress"
        /\ history[i].advances = 2
        /\ Len(case_order(sessions[i], "A")) = 2
        /\ \E cur \in CursorOf(progress, i) :
              /\ cur[1] = "B" /\ cur[2] = 0
              /\ Len(cur[3]) = 2

(***************************************************************************)
(* The allocator alone: a dataset of up to MaxPositive positive cases and   *)
(* at most one negative case; one allocation request, whose response the   *)
(* client keeps, and preview requests.                                     *)
(***************************************************************************)
MaxPositive == 2

\* Case ids as scan_dataset_cases builds them: distinct within a folder, and
\* the positive ones carry the prefix that keeps them apart from the others.
PositivePool == <<"p1", "p2", "p3", "p4">>
NegativeChoices == {<<>>, <<"n1">>}

DatasetChoices ==
    {[positive |-> SubSeq(PositivePool, 1, p), negative |-> negative] :
        p \in 0..MaxPositive, negative \in NegativeChoices}

\* Query parameters <<num_sessions, num_blocks>> of /case/allocate and
\* /case/allocation-preview (both ge=1).
AllocateRequests == {<<1, 1>>, <<2, 1>>, <<1, 2>>, <<2, 2>>, <<1, 3>>, <<2, 3>>}

\* A preview that divides each category by sessions times blocks.
allocation_preview_PerSession(num_sessions, num_blocks) ==
    LET total_positive == Len(dataset.positive)
        total_negative == Len(dataset.negative)
        total == total_positive + total_negative
        pos_per_block == total_positive \div (num_sessions * num_blocks)
        neg_per_block == total_negative \div (num_sessions * num_blocks)
        cases_per_block == pos_per_block + neg_per_block
        usable_cases == pos_per_block * num_blocks + neg_per_block * num_blocks
    IN  [total_cases        |-> total,
         positive_cases     |-> total_positive,
         negative_cases     |-> total_negative,
         usable_cases       |-> usable_cases,
         num_sessions       |-> num_sessions,
         num_blocks         |-> num_blocks,
         cases_per_session  |-> cases_per_block * num_blocks,
         cases_per_block    |-> cases_per_block,
         positive_per_block |-> pos_per_block,
         negative_per_block |-> neg_per_block,
         unused_cases       |-> total - usable_cases]

\* The dictionary get_allocation_preview returns.
allocation_preview(num_sessions, num_blocks) ==
    LET total_positive == Len(dataset.positive)
        total_negative == Len(dataset.negative)
        total == total_positive + total_negative
        pos_per_block == total_positive \div num_blocks
        neg_per_block == total_negative \div num_blocks
        cases_per_block == pos_per_block + neg_per_block
        usable_cases == pos_per_block * num_blocks + neg_per_block * num_blocks
    IN  [total_cases        |-> total,
         positive_cases     |-> total_positive,
         negative_cases     |-> total_negative,
         usable_cases       |-> usable_cases,
         num_sessions       |-> num_sessions,
         num_blocks         |-> num_blocks,
         cases_per_session  |-> cases_per_block * num_blocks,
         cases_per_block    |-> cases_per_block,
         positive_per_block |-> pos_per_block,
         negative_per_block |-> neg_per_block,
         unused_cases       |-> total - usable_cases]

\* GET /case/allocation-preview.
get_allocation_preview(num_sessions, num_blocks) ==
    /\ reply' = Some([op |-> "get_allocation_preview", status |-> "ok",
                      value |-> allocation_preview(num_sessions, num_blocks)])
    /\ UNCHANGED <<config, sessions, progress, dbWriter, conn, now, allocation, dataset,
                   history>>

InitAllocate ==
    /\ config = None
    /\ sessions = <<>>
    /\ progress = {}
    /\ dbWriter = "none"
    /\ conn = [c \in Conns |-> IdleConn]
    /\ now = 0
    /\ reply = None
    /\ allocation = None
    /\ dataset \in DatasetChoices
    /\ history = <<>>

NextAllocate ==
    \/ /\ allocation = None
       /\ \E req \in AllocateRequests, do_shuffle \in BOOLEAN :
             allocate_cases(req[1], req[2], do_shuffle)
    \/ \E req \in AllocateRequests : get_allocation_preview(req[1], req[2])

SpecAllocate == InitAllocate /\ [][NextAllocate]_vars

(***************************************************************************)
(* Properties of the allocator (checked under SpecAllocate).               *)
(***************************************************************************)
\* The blocks of a kept allocation, as <<session code, block key>> pairs, and
\* the block count it was computed for.
BlocksOf(result) ==
    {at \in (DOMAIN result.sessions) \X Range(BlockKeyOf) :
        at[2] \in DOMAIN result.sessions[at[1]]}

BlockAt(result, at) == result.sessions[at[1]][at[2]]

NumBlocksOf(result) ==
    Cardinality({at[2] : at \in BlocksOf(result)})

\* The number of positions of a block that hold a case of the given list.
CategoryCount(block, ids) == Cardinality({i \in DOMAIN block : block[i] \in Range(ids)})

\* C21: for a pool of P positive and N negative cases and B >= 1 blocks, each
\* block allocate produces holds exactly floor(P/B) positive and floor(N/B)
\* negative cases, in every session and whatever the number of sessions.
C21_BlocksAreBalanced ==
    allocation # None =>
        LET result == allocation[1]
            num_blocks == NumBlocksOf(result)
        IN  /\ num_blocks >= 1
            /\ \A at \in BlocksOf(result) :
                  /\ CategoryCount(BlockAt(result, at), dataset.positive)
                        = Len(dataset.positive) \div num_blocks
                  /\ CategoryCount(BlockAt(result, at), dataset.negative)
                        = Len(dataset.negative) \div num_blocks
                  /\ Len(BlockAt(result, at))
                        = Len(dataset.positive) \div num_blocks
                          + Len(dataset.negative) \div num_blocks
                  /\ result.positive_per_block = Len(dataset.positive) \div num_blocks
                  /\ result.negative_per_block = Len(dataset.negative) \div num_blocks

\* Two positive cases and one negative case have been allocated to two blocks
\* in each of two sessions: every block holds one positive case and the
\* negative case is left out.
C21_Witness ==
    /\ allocation # None
    /\ Len(dataset.positive) = 2 /\ Len(dataset.negative) = 1
    /\ DOMAIN allocation[1].sessions = {"S1", "S2"}
    /\ NumBlocksOf(allocation[1]) = 2
    /\ \A at \in BlocksOf(allocation[1]) : Len(BlockAt(allocation[1], at)) = 1

\* C22: within one allocate call, for every block position the case
\* identifiers of that block are the same in every session, with or without
\* shuffling; only their order may differ.
C22_SameBlockContentInEverySession ==
    allocation # None =>
        LET result == allocation[1]
        IN  \A at1, at2 \in BlocksOf(result) :
               at1[2] = at2[2]
               => /\ Range(BlockAt(result, at1)) = Range(BlockAt(result, at2))
                  /\ SameMultiset(BlockAt(result, at1), BlockAt(result, at2))

\* Two sessions have been given the same block of at least two cases in
\* different orders.
C22_Witness ==
    /\ allocation # None
    /\ DOMAIN allocation[1].sessions = {"S1", "S2"}
    /\ allocation[1].sessions["S1"].block_a # allocation[1].sessions["S2"].block_a
    /\ Len(allocation[1].sessions["S1"].block_a) >= 2

\* The sizing fields allocate and the preview both report.
SizingFields ==
    {"total_cases", "usable_cases", "cases_per_session", "cases_per_block",
     "positive_per_block", "negative_per_block"}

\* The last reply is a preview for the session and block counts of the kept
\* allocation.
PreviewOfAllocation ==
    /\ allocation # None
    /\ LastReply("get_allocation_preview", "ok")
    /\ reply[1].value.num_blocks = NumBlocksOf(allocation[1])
    /\ reply[1].value.num_sessions = Cardinality(DOMAIN allocation[1].sessions)

\* C23: for every case pool and every (num_sessions, num_blocks), the preview
\* reports the same total_cases, usable_cases, cases_per_session,
\* cases_per_block, positive_per_block and negative_per_block as allocate, and
\* unused_cases = total_cases - usable_cases; it produces no ordering and
\* changes no state.
C23_PreviewAgreesWithAllocate ==
    [][/\ PreviewOfAllocation'
          => \A f \in SizingFields : reply'[1].value[f] = allocation'[1][f]
       /\ (LastReply("get_allocation_preview", "ok")' /\ reply' # reply)
          => /\ reply'[1].value.unused_cases
                  = reply'[1].value.total_cases - reply'[1].value.usable_cases
             /\ "sessions" \notin DOMAIN reply'[1].value
             /\ UNCHANGED <<config, sessions, progress, dbWriter, conn, now, allocation,
                            dataset, history>>]_vars

\* Two positive cases and one negative case: after an allocation for two
\* sessions of two blocks, the preview for the same counts reports one unused
\* case.
C23_Witness ==
    /\ PreviewOfAllocation
    /\ Len(dataset.positive) = 2 /\ Len(dataset.negative) = 1
    /\ reply[1].value.num_sessions = 2
    /\ reply[1].value.num_blocks = 2
    /\ reply[1].value.unused_cases = 1

\* The cases a session of a kept allocation holds in any of its blocks.
AllocatedCases(result, code) ==
    UNION {Range(BlockAt(result, at)) : at \in {b \in BlocksOf(result) : b[1] = code}}

\* C27: the blocks allocate produces for a session are pairwise disjoint and
\* repeat no case; their union has exactly usable_cases cases of the dataset,
\* and the number of cases left out of every block is (P mod B) + (N mod B)
\* = total_cases - usable_cases.
C27_BlocksPartitionUsableCases ==
    allocation # None =>
        LET result == allocation[1]
            num_blocks == NumBlocksOf(result)
            all_cases == Range(dataset.positive) \cup Range(dataset.negative)
        IN  \A code \in DOMAIN result.sessions :
               /\ \A at1, at2 \in BlocksOf(result) :
                     (at1[1] = code /\ at2[1] = code /\ at1[2] # at2[2])
                     => Range(BlockAt(result, at1)) \cap Range(BlockAt(result, at2)) = {}
               /\ \A at \in BlocksOf(result) :
                     Cardinality(Range(BlockAt(result, at))) = Len(BlockAt(result, at))
               /\ AllocatedCases(result, code) \subseteq all_cases
               /\ Cardinality(AllocatedCases(result, code)) = result.usable_cases
               /\ Cardinality(all_cases \ AllocatedCases(result, code))
                     = (Len(dataset.positive) % num_blocks)
                       + (Len(dataset.negative) % num_blocks)
               /\ Cardinality(all_cases \ AllocatedCases(result, code))
                     = result.total_cases - result.usable_cases

\* Two positive cases and one negative case have been allocated to two blocks
\* of one session without shuffling: p1 and p2 are used and n1 is left out.
C27_Witness ==
    /\ allocation # None
    /\ Len(dataset.positive) = 2 /\ Len(dataset.negative) = 1
    /\ DOMAIN allocation[1].sessions = {"S1"}
    /\ NumBlocksOf(allocation[1]) = 2
    /\ allocation[1].sessions["S1"].block_a = <<"p1">>
    /\ allocation[1].sessions["S1"].block_b = <<"p2">>
    /\ allocation[1].total_cases - allocation[1].usable_cases = 1

(***************************************************************************)
(* The default crossover table, in the three places it is written.         *)
(***************************************************************************)
\* generate_default_crossover_mapping: the 2x2x2 table, or None for the
\* ValueError any other structure raises.
generate_default_crossover_mapping(total_sessions, total_blocks, total_groups) ==
    IF total_sessions # 2 \/ total_blocks # 2 \/ total_groups # 2
      THEN None
      ELSE Some([ group_1 |-> [ S1 |-> [block_A |-> "UNAIDED", block_B |-> "AIDED"],
                                S2 |-> [block_A |-> "AIDED",   block_B |-> "UNAIDED"] ],
                  group_2 |-> [ S1 |-> [block_A |-> "AIDED",   block_B |-> "UNAIDED"],
                                S2 |-> [block_A |-> "UNAIDED", block_B |-> "AIDED"] ] ])

\* One mode is AIDED and the other UNAIDED.
OneOfEach(block_a_mode, block_b_mode) ==
    {block_a_mode, block_b_mode} = {"AIDED", "UNAIDED"}

\* C24: for every (group, session code) pair of the default crossover mapping
\* (groups 1-2, sessions S1-S2), block_a_mode # block_b_mode, in each of the
\* three places the table is written; so every session created from it has
\* exactly one AIDED and one UNAIDED block.
C24_DefaultMappingAlternates ==
    /\ \A group \in 1..2 : \A session_code \in {"S1", "S2"} :
          LET column == json_loads(DEFAULT_CROSSOVER_MAPPING, 3)[GroupKeyOf[group]][session_code]
              table == CROSSOVER_MAPPING[<<group, session_code>>]
              generated == generate_default_crossover_mapping(2, 2, 2)[1]
                               [GroupKeyOf[group]][session_code]
          IN  /\ OneOfEach(column["block_A"], column["block_B"])
              /\ OneOfEach(table[1], table[2])
              /\ OneOfEach(generated["block_A"], generated["block_B"])
    /\ \A i \in DOMAIN sessions :
          OneOfEach(sessions[i].block_a_mode, sessions[i].block_b_mode)

\* Sessions have been created for group 1 in S1 and S2 and for group 2 in S2.
C24_Witness ==
    /\ Len(sessions) = 3
    /\ \E i, j \in DOMAIN sessions :
          /\ sessions[i].block_a_mode = "AIDED"
          /\ sessions[j].block_a_mode = "UNAIDED"

(***************************************************************************)
(* Two clients of one reader: both connections assign, enter and advance   *)
(* the session of reader 1 in S1, the first also resets it, and their      *)
(* handlers interleave between the load and the commit.                    *)
(***************************************************************************)
\* The block lists every entry of this specification supplies.
RaceBlocks == [block_a |-> <<"k1", "k2">>, block_b |-> <<"k3">>]

RaceAssignRequest == <<1, "S1">>

RaceSessionId == 1

\* The case identifiers the clients report as completed.
RaceCaseIds == {"k1", "k2"}

NextRace ==
    \/ \E c \in Conns :
          create_session_for_reader_begin(c, RaceAssignRequest[1], RaceAssignRequest[2],
              AssignDefaults.k_max, AssignDefaults.ai_threshold)
    \/ \E c \in Conns : create_session_for_reader(c)
    \/ \E c \in Conns :
          enter_session_begin(c, RaceSessionId, RaceAssignRequest[1],
                              RaceBlocks.block_a, RaceBlocks.block_b)
    \/ \E c \in Conns : enter_session(c)
    \/ \E c \in Conns, completed_case_id \in RaceCaseIds :
          advance_to_next_case_begin(c, RaceSessionId, RaceAssignRequest[1], completed_case_id)
    \/ \E c \in Conns : advance_to_next_case(c)
    \/ reset_session_begin("c1", RaceSessionId)
    \/ reset_session("c1")

SpecRace == Init /\ [][NextRace]_vars

(***************************************************************************)
(* Properties of concurrent clients (checked under SpecRace).              *)
(***************************************************************************)
\* Both case orders of session i are set.
OrdersSet(i) ==
    sessions[i].case_order_block_a # None /\ sessions[i].case_order_block_b # None

\* Neither case order of session i is set.
OrdersClear(i) ==
    sessions[i].case_order_block_a = None /\ sessions[i].case_order_block_b = None

UniquePairs(table) ==
    \A i, j \in DOMAIN table :
        (table[i].reader_id = table[j].reader_id
         /\ table[i].session_code = table[j].session_code) => i = j

\* Connection c serves a create call for the pair, from its start or from its
\* commit.
CreateStep(c, reader_id, session_code) ==
    \/ /\ conn[c].pc = "idle"
       /\ create_session_for_reader_begin(c, reader_id, session_code,
              AssignDefaults.k_max, AssignDefaults.ai_threshold)
    \/ /\ Serving(c, "create_session_for_reader", "loaded")
       /\ conn[c].arg.reader_id = reader_id
       /\ conn[c].arg.session_code = session_code
       /\ create_session_for_reader(c)

\* C26: there is at most one session per (reader, session code) pair, also when
\* two create_session_for_reader calls for the same pair run side by side; a
\* create call for a pair that already has a session fails and leaves the
\* existing session unchanged.
C26_OneSessionPerPair ==
    [][/\ UniquePairs(sessions')
       /\ \A c \in Conns :
            (/\ SessionExists(RaceAssignRequest[1], RaceAssignRequest[2])
             /\ CreateStep(c, RaceAssignRequest[1], RaceAssignRequest[2]))
            => /\ conn'[c].pc = "idle" => reply'[1].status # "ok"
               /\ sessions' = sessions]_vars

\* Two create calls for the pair ran side by side: one inserted the row and the
\* other's INSERT has just been refused.
C26_Witness ==
    /\ LastReply("create_session_for_reader", "500")
    /\ Len(sessions) = 1

(***************************************************************************)
(* The flags of the current case (checked under SpecSession, which has one *)
(* session).                                                               *)
(***************************************************************************)
\* This step answers a current or advance call successfully.
AnswersCurrentCase ==
    /\ reply' # reply
    /\ reply' # None
    /\ reply'[1].op \in {"get_current_case", "advance_to_next_case"}
    /\ reply'[1].status = "ok"

\* C28: the is_session_complete flag returned by current and by advance is true
\* exactly when the session's stored status is completed; it is never true
\* while the status is still in_progress, whatever the block sizes, zero
\* included.
C28_CompleteFlagMatchesStatus ==
    [][AnswersCurrentCase
         => \A i \in DOMAIN sessions' :
               reply'[1].value.is_session_complete
                  <=> sessions'[i].status = "completed"]_vars

(***************************************************************************)
(* Concurrent advances (checked under SpecRace).                           *)
(***************************************************************************)
\* The cursor, the completed set and the status of a session and its progress
\* row.
Outcome(session, prog) ==
    [current_block      |-> prog.current_block,
     current_case_index |-> prog.current_case_index,
     completed_cases    |-> Range(prog.completed_cases),
     status             |-> session.status]

\* Connection c commits an advance it loaded before another advance, carrying
\* the distinct case id x, was committed: what is stored now is what that other
\* advance made of the rows c holds.
OvertakenAdvance(c, x) ==
    /\ Serving(c, "advance_to_next_case", "loaded")
    /\ x # conn[c].arg.completed_case_id
    /\ LET loaded == conn[c].snap[1]
           first == advance_body(loaded.session, loaded.progress[1], x, now)
       IN  /\ first.session.status = "in_progress"
           /\ sessions[conn[c].arg.session_id] = first.session
           /\ progress = {first.progress}
    /\ conn'[c].pc = "idle"
    /\ reply'[1].status = "ok"

\* C29: when two advance calls on the same in-progress session with distinct
\* case ids run side by side and both succeed, no update is lost: the progress
\* is that of running them one after the other, the cursor two steps along and
\* both ids in the completed set.
C29_ConcurrentAdvancesLoseNothing ==
    [][\A c \in Conns : \A x \in RaceCaseIds :
         OvertakenAdvance(c, x)
         => LET session_id == conn[c].arg.session_id
                second == advance_body(sessions[session_id],
                                       CHOOSE p \in progress : TRUE,
                                       conn[c].arg.completed_case_id, now)
            IN  \A p \in {q \in progress' : q.session_id = session_id} :
                   Outcome(sessions'[session_id], p)
                     = Outcome(second.session, second.progress)]_vars

(***************************************************************************)
(* The session listing of a reader (GET /sessions/my).                     *)
(***************************************************************************)
\* len(json.loads(order or "[]")) for a block of a session.
_count_block_cases(session, block) ==
    LET order == IF block = "A" THEN session.case_order_block_a
                 ELSE session.case_order_block_b
    IN  IF order = None THEN 0 ELSE Len(order[1])

_count_total_cases(session) ==
    _count_block_cases(session, "A") + _count_block_cases(session, "B")

\* n / d rounded to the nearest integer, ties to the even one.
RoundHalfEven(n, d) ==
    LET q == n \div d
        r == n % d
    IN  IF 2 * r < d THEN q
        ELSE IF 2 * r > d THEN q + 1
        ELSE IF q % 2 = 0 THEN q ELSE q + 1

\* round(completed_count / total_cases * 100, 1), in tenths of a percent.
progress_percent(completed_count, total_cases) ==
    IF total_cases > 0 THEN RoundHalfEven(completed_count * 1000, total_cases) ELSE 0

\* The summary get_reader_sessions builds for the session with the given id.
session_summary(session_id) ==
    LET session == sessions[session_id]
        prog == get_session_by_id(session_id)[1].progress
        total_cases == _count_total_cases(session)
        completed_count == IF prog # None THEN Len(prog[1].completed_cases) ELSE 0
    IN  [session_id         |-> session_id,
         session_code       |-> session.session_code,
         status             |-> session.status,
         block_a_mode       |-> session.block_a_mode,
         block_b_mode       |-> session.block_b_mode,
         progress_percent   |-> progress_percent(completed_count, total_cases),
         current_block      |-> IF prog # None THEN Some(prog[1].current_block) ELSE None,
         current_case_index |-> IF prog # None THEN Some(prog[1].current_case_index) ELSE None,
         total_cases        |-> total_cases,
         last_accessed_at   |-> IF prog # None THEN prog[1].last_accessed_at ELSE None]

\* Session codes in the order ORDER BY session_code gives them.
SessionCodeRank == [S1 |-> 1, S2 |-> 2]

\* get_reader_sessions: the summaries of the reader's sessions, by session code.
get_reader_sessions(c, reader_id) ==
    /\ conn[c].pc = "idle"
    /\ LET ids == {i \in DOMAIN sessions : sessions[i].reader_id = reader_id}
           ordered == CHOOSE seq \in [1..Cardinality(ids) -> ids] :
                         \A a, b \in 1..Cardinality(ids) :
                            a < b => SessionCodeRank[sessions[seq[a]].session_code]
                                       < SessionCodeRank[sessions[seq[b]].session_code]
       IN  Respond(c, "get_reader_sessions", "ok",
                   [k \in 1..Cardinality(ids) |-> session_summary(ordered[k])])
    /\ UNCHANGED <<config, sessions, progress, dbWriter, now, allocation, dataset, history>>

\* Reader 1 is assigned S2 and S1, in either order.
ListingAssignRequests == {<<1, "S2">>, <<1, "S1">>}

\* The session the client enters and advances: the one assigned first.
ListingSessionIds == {1}

\* Block lists as the client sends them: two cases in block A and none or one
\* in block B, or no cases at all.
ListingBlocks == {[block_a |-> <<"k1", "k2">>, block_b |-> <<"k3">>],
                  [block_a |-> <<"k1", "k2">>, block_b |-> <<>>],
                  [block_a |-> <<>>, block_b |-> <<>>]}

NextListing ==
    \/ \E req \in ListingAssignRequests :
          create_session_for_reader_begin("c1", req[1], req[2],
              AssignDefaults.k_max, AssignDefaults.ai_threshold)
    \/ create_session_for_reader("c1")
    \/ \E session_id \in ListingSessionIds, blocks \in ListingBlocks :
          enter_session_begin("c1", session_id, 1, blocks.block_a, blocks.block_b)
    \/ enter_session("c1")
    \/ \E session_id \in ListingSessionIds, completed_case_id \in CaseIds :
          advance_to_next_case_begin("c1", session_id, 1, completed_case_id)
    \/ advance_to_next_case("c1")
    \/ \E reader_id \in ReaderIds : get_reader_sessions("c1", reader_id)

SpecListing == Init /\ [][NextListing]_vars

\* C30: in every reachable state the number of entries in a session's completed
\* set is at most the number of cases in its two block orders, so the progress
\* percentage of the session listing never exceeds 100, and it is 0 when the
\* session has no cases.
C30_CompletedWithinTotal ==
    /\ \A p \in progress :
          Len(p.completed_cases) <= _count_total_cases(sessions[p.session_id])
    /\ LastReply("get_reader_sessions", "ok")
          => \A k \in DOMAIN reply[1].value :
                /\ reply[1].value[k].progress_percent <= 1000
                /\ reply[1].value[k].total_cases = 0
                      => reply[1].value[k].progress_percent = 0

====
